---- MODULE Spec2Model ----
(***************************************************************************)
(* Lead enrichment bot: website discovery, content extraction, LLM         *)
(* response parsing and the per-company / batch orchestration of           *)
(* src/lead_enrichment_bot.py and src/streamlit_app.py.                    *)
(*                                                                         *)
(* A Python str is a sequence of one-character strings; the empty str is   *)
(* << >>.  All texts are ASCII, so len(bytes) = len(str).                  *)
(***************************************************************************)
EXTENDS Integers, Sequences, FiniteSets, TLC

(***************************************************************************)
(* Python str / re primitives used by the program                          *)
(***************************************************************************)
UpperSeq == <<"A","B","C","D","E","F","G","H","I","J","K","L","M",
              "N","O","P","Q","R","S","T","U","V","W","X","Y","Z">>

LowerSeq == <<"a","b","c","d","e","f","g","h","i","j","k","l","m",
              "n","o","p","q","r","s","t","u","v","w","x","y","z">>

Digits == {"0","1","2","3","4","5","6","7","8","9"}

IsUpper(c) == \E i \in 1..26 : UpperSeq[i] = c

IsLower(c) == \E i \in 1..26 : LowerSeq[i] = c

\* [a-zA-Z0-9]
IsAlnum(c) == IsUpper(c) \/ IsLower(c) \/ c \in Digits

\* \w of the re module on ASCII text: [a-zA-Z0-9_]
IsWordChar(c) == IsAlnum(c) \/ c = "_"

\* the characters str.strip(), str.split() and \s treat as whitespace
IsSpace(c) == c \in {" ", "\n", "\t", "\r"}

LowerChar(c) == IF IsUpper(c) THEN LowerSeq[CHOOSE i \in 1..26 : UpperSeq[i] = c] ELSE c

\* str.lower()
str_lower(s) == [i \in 1..Len(s) |-> LowerChar(s[i])]

\* str.strip()
str_strip(s) ==
    IF \A i \in 1..Len(s) : IsSpace(s[i]) THEN << >>
    ELSE LET first == CHOOSE i \in 1..Len(s) :
                          ~IsSpace(s[i]) /\ \A j \in 1..(i-1) : IsSpace(s[j])
             last  == CHOOSE i \in 1..Len(s) :
                          ~IsSpace(s[i]) /\ \A j \in (i+1)..Len(s) : IsSpace(s[j])
         IN  SubSeq(s, first, last)

\* a slice that forgets its limit: s instead of s[:n]
str_whole(s, n) == s

\* s[:n]
str_prefix(s, n) == IF Len(s) <= n THEN s ELSE SubSeq(s, 1, n)

\* s.startswith(p) at offset i (0-based): s[i:i+len(p)] == p
str_at(s, i, p) ==
    /\ i + Len(p) <= Len(s)
    /\ \A k \in 1..Len(p) : s[i + k] = p[k]

\* p in s
str_in(p, s) == \E i \in 0..(Len(s) - Len(p)) : str_at(s, i, p)

\* s.find(p) + 1 (0 when p does not occur); p is non-empty
str_find(s, p) ==
    IF str_in(p, s)
    THEN 1 + CHOOSE i \in 0..(Len(s) - Len(p)) :
                 str_at(s, i, p) /\ \A j \in 0..(i-1) : ~str_at(s, j, p)
    ELSE 0

\* s.replace(old, new), old non-empty: leftmost non-overlapping occurrences
RECURSIVE str_replace(_, _, _)
str_replace(s, old, new) ==
    LET i == str_find(s, old)
    IN  IF i = 0 THEN s
        ELSE SubSeq(s, 1, i - 1) \o new
             \o str_replace(SubSeq(s, i + Len(old), Len(s)), old, new)

\* s.split(sep), sep non-empty: the list of pieces
RECURSIVE str_split(_, _)
str_split(s, sep) ==
    LET i == str_find(s, sep)
    IN  IF i = 0 THEN << s >>
        ELSE << SubSeq(s, 1, i - 1) >>
             \o str_split(SubSeq(s, i + Len(sep), Len(s)), sep)

\* s.split(sep)[-1]: everything after the last sep
str_after_last(s, sep) ==
    LET pieces == str_split(s, sep) IN pieces[Len(pieces)]

\* s.split(sep, 1)[1]: everything after the first sep (sep occurs in s)
str_after_first(s, sep) ==
    LET i == str_find(s, sep) IN SubSeq(s, i + Len(sep), Len(s))

\* ' '.join(parts)
RECURSIVE str_join(_)
str_join(parts) ==
    IF parts = << >> THEN << >>
    ELSE IF Len(parts) = 1 THEN parts[1]
    ELSE parts[1] \o << " " >> \o str_join(Tail(parts))

\* re.sub(r'[^a-zA-Z0-9]', '', s)
alnum_only(s) == SelectSeq(s, IsAlnum)

\* re.sub(r'\s+', ' ', s): every maximal whitespace run becomes one space
collapse_ws(s) ==
    LET keep == SelectSeq([i \in 1..Len(s) |-> i],
                          LAMBDA i : ~IsSpace(s[i]) \/ i = 1 \/ ~IsSpace(s[i-1]))
    IN  [k \in 1..Len(keep) |-> IF IsSpace(s[keep[k]]) THEN " " ELSE s[keep[k]]]

\* s.split(): the whitespace-delimited words of s
RECURSIVE str_words(_)
str_words(s) ==
    LET t == str_strip(s)
    IN  IF t = << >> THEN << >>
        ELSE IF \A i \in 1..Len(t) : ~IsSpace(t[i]) THEN << t >>
        ELSE LET e == CHOOSE i \in 1..Len(t) :
                          IsSpace(t[i]) /\ \A j \in 1..(i-1) : ~IsSpace(t[j])
             IN  << SubSeq(t, 1, e - 1) >> \o str_words(SubSeq(t, e, Len(t)))

\* re.findall(r'\w+', s): the maximal runs of word characters
RECURSIVE re_words(_)
re_words(s) ==
    IF \A i \in 1..Len(s) : ~IsWordChar(s[i]) THEN << >>
    ELSE LET b == CHOOSE i \in 1..Len(s) :
                      IsWordChar(s[i]) /\ \A j \in 1..(i-1) : ~IsWordChar(s[j])
             e == CHOOSE i \in b..Len(s) :
                      /\ \A j \in b..i : IsWordChar(s[j])
                      /\ (i = Len(s) \/ ~IsWordChar(s[i+1]))
         IN  << SubSeq(s, b, e) >> \o re_words(SubSeq(s, e + 1, Len(s)))

\* list(dict.fromkeys(xs)): duplicates removed, first occurrences kept in order
dedup(xs) ==
    LET keep == SelectSeq([i \in 1..Len(xs) |-> i],
                          LAMBDA i : \A j \in 1..(i-1) : xs[j] # xs[i])
    IN  [k \in 1..Len(keep) |-> xs[keep[k]]]

(***************************************************************************)
(* HTTP responses.  A response of session.get is the record                *)
(*   exc     : the request raised (connection error, timeout)              *)
(*   status  : response.status_code                                        *)
(*   body    : response.text (= response.content, ASCII)                   *)
(*   regions : for each element that soup.select returns over              *)
(*             CONTENT_SELECTORS, in order, after REMOVE_ELEMENTS were     *)
(*             decomposed: element.get_text(strip=True)                    *)
(*   links   : the href of every <a href=...> of the body, in page order   *)
(* BeautifulSoup's parse is the library's; the model takes its results.    *)
(***************************************************************************)
Response(exc, status, body, regions, links) ==
    [exc |-> exc, status |-> status, body |-> body, regions |-> regions, links |-> links]

MAX_CONTENT_LENGTH == 4000

MIN_CONTENT_LENGTH == 50

MIN_PROBE_BYTES == 1000

MIN_VARIANT_LEN == 2

MIN_WORD_LEN == 3

(***************************************************************************)
(* Website discovery: search_company_website                               *)
(***************************************************************************)
WWW_PREFIX == <<"h","t","t","p","s",":","/","/","w","w","w",".">>

BARE_PREFIX == <<"h","t","t","p","s",":","/","/">>

TLDS == << <<".","c","o","m">>, <<".","i","o">>, <<".","c","o">>, <<".","n","e","t">>, <<".","o","r","g">> >>

parked_indicators ==
    << <<"d","o","m","a","i","n"," ","f","o","r"," ","s","a","l","e">>,
       <<"p","a","r","k","e","d"," ","d","o","m","a","i","n">>,
       <<"b","u","y"," ","t","h","i","s"," ","d","o","m","a","i","n">>,
       <<"d","o","m","a","i","n"," ","e","x","p","i","r","e","d">> >>

SKIP_DOMAINS ==
    << <<"f","a","c","e","b","o","o","k",".","c","o","m">>,
       <<"t","w","i","t","t","e","r",".","c","o","m">>,
       <<"l","i","n","k","e","d","i","n",".","c","o","m">>,
       <<"i","n","s","t","a","g","r","a","m",".","c","o","m">>,
       <<"y","o","u","t","u","b","e",".","c","o","m">>,
       <<"c","r","u","n","c","h","b","a","s","e",".","c","o","m">>,
       <<"w","i","k","i","p","e","d","i","a",".","o","r","g">>,
       <<"g","i","t","h","u","b",".","c","o","m">>,
       <<"r","e","d","d","i","t",".","c","o","m">>,
       <<"m","e","d","i","u","m",".","c","o","m">>,
       <<"b","l","o","o","m","b","e","r","g",".","c","o","m">>,
       <<"f","o","r","b","e","s",".","c","o","m">>,
       <<"b","i","n","g",".","c","o","m">>,
       <<"g","o","o","g","l","e",".","c","o","m">>,
       <<"y","a","h","o","o",".","c","o","m">>,
       <<"p","i","n","t","e","r","e","s","t",".","c","o","m">> >>

SEARCH_URL_PREFIX == <<"h","t","t","p","s",":","/","/","d","u","c","k","d","u","c","k","g","o",".","c","o","m","/","h","t","m","l","/","?","q","=">>

OFFICIAL_WEBSITE == <<" ","o","f","f","i","c","i","a","l"," ","w","e","b","s","i","t","e">>

UDDG == <<"u","d","d","g","=">>

\* company_name.lower().split()[0] raises IndexError when the name holds a
\* space and no word
variations_raise(company_name) ==
    str_in(<< " " >>, company_name) /\ str_words(str_lower(company_name)) = << >>

\* the three clean_name_variations of _try_common_domains
clean_name_variations(company_name) ==
    << alnum_only(str_lower(company_name)),
       str_replace(str_replace(str_replace(str_lower(company_name),
                   << " " >>, << >>), << "." >>, << >>), << "," >>, << >>),
       IF str_in(<< " " >>, company_name)
       THEN str_words(str_lower(company_name))[1]
       ELSE str_lower(company_name) >>

\* the ten potential_domains of one clean name, in probe order
potential_domains(clean_name) ==
    [k \in 1..(2 * Len(TLDS)) |->
        (IF k % 2 = 1 THEN WWW_PREFIX ELSE BARE_PREFIX)
        \o clean_name \o TLDS[(k + 1) \div 2]]

RECURSIVE concat_all(_)
concat_all(lists) ==
    IF lists = << >> THEN << >> ELSE Head(lists) \o concat_all(Tail(lists))

\* the candidates when equal variations are not merged
candidates_without_dedup(company_name) ==
    LET probed == SelectSeq(clean_name_variations(company_name),
                            LAMBDA c : ~(Len(c) < MIN_VARIANT_LEN))
    IN  concat_all([k \in 1..Len(probed) |-> potential_domains(probed[k])])

\* every URL _try_common_domains may fetch, in the order it fetches them
probe_candidates(company_name) ==
    LET clean_names == dedup(clean_name_variations(company_name))
        probed == SelectSeq(clean_names, LAMBDA c : ~(Len(c) < MIN_VARIANT_LEN))
    IN  concat_all([k \in 1..Len(probed) |-> potential_domains(probed[k])])

\* an acceptance test without the parked-domain check of line 103
accepts_without_parked_test(response) ==
    /\ ~response.exc
    /\ response.status = 200
    /\ Len(response.body) > MIN_PROBE_BYTES

\* the acceptance test of one probe response
probe_accepts(response) ==
    /\ ~response.exc
    /\ response.status = 200
    /\ Len(response.body) > MIN_PROBE_BYTES
    /\ ~\E k \in 1..Len(parked_indicators) :
           str_in(parked_indicators[k], str_lower(response.body))

\* urllib.parse.quote / unquote on the characters the model uses
PCT == << << " ", <<"%","2","0">> >>, << "&", <<"%","2","6">> >>,
          << ",", <<"%","2","C">> >>, << ":", <<"%","3","A">> >>,
          << "/", <<"%","2","F">> >>, << "?", <<"%","3","F">> >>,
          << "=", <<"%","3","D">> >>, << "%", <<"%","2","5">> >>,
          << "-", <<"%","2","D">> >>, << "#", <<"%","2","3">> >> >>

quote_char(c) ==
    IF IsAlnum(c) \/ c \in {"_", ".", "-", "~", "/"} THEN << c >>
    ELSE IF \E k \in 1..Len(PCT) : PCT[k][1] = c
         THEN PCT[CHOOSE k \in 1..Len(PCT) : PCT[k][1] = c][2]
         ELSE << c >>

url_quote(s) == concat_all([i \in 1..Len(s) |-> quote_char(s[i])])

RECURSIVE url_unquote(_)
url_unquote(s) ==
    LET i == str_find(s, << "%" >>)
    IN  IF i = 0 THEN s
        ELSE IF \E k \in 1..Len(PCT) : str_at(s, i - 1, PCT[k][2])
             THEN SubSeq(s, 1, i - 1)
                  \o << PCT[CHOOSE k \in 1..Len(PCT) : str_at(s, i - 1, PCT[k][2])][1] >>
                  \o url_unquote(SubSeq(s, i + 3, Len(s)))
             ELSE SubSeq(s, 1, i) \o url_unquote(SubSeq(s, i + 1, Len(s)))

search_url(company_name) ==
    SEARCH_URL_PREFIX \o url_quote(company_name \o OFFICIAL_WEBSITE)

\* urlparse(url).netloc
url_netloc(url) ==
    LET upto(host, stops) ==
            IF stops = {} THEN host
            ELSE SubSeq(host, 1, (CHOOSE i \in stops : \A j \in stops : i <= j) - 1)
        authority(host) == upto(host, {i \in 1..Len(host) : host[i] \in {"/", "?", "#"}})
        after_scheme(rest) ==
            IF ~str_at(rest, 0, << "/", "/" >>) THEN << >>
            ELSE authority(SubSeq(rest, 3, Len(rest)))
        scheme_ok(c) ==
            /\ c > 1
            /\ IsUpper(url[1]) \/ IsLower(url[1])
            /\ \A j \in 1..(c-1) : IsAlnum(url[j]) \/ url[j] \in {"+", "-", "."}
        from_colon(c) ==
            after_scheme(IF scheme_ok(c) THEN SubSeq(url, c + 1, Len(url)) ELSE url)
    IN  from_colon(str_find(url, << ":" >>))

\* a filter that looks at the name's words only, not at the skip-list
likely_without_skip_list(url, company_name) ==
    \E w \in 1..Len(re_words(str_lower(company_name))) :
        /\ Len(re_words(str_lower(company_name))[w]) > MIN_WORD_LEN
        /\ str_in(re_words(str_lower(company_name))[w], alnum_only(str_lower(url_netloc(url))))

is_likely_company_website(url, company_name) ==
    LET word_matches(company_words, domain_clean) ==
            \E w \in 1..Len(company_words) :
                /\ Len(company_words[w]) > MIN_WORD_LEN
                /\ str_in(company_words[w], domain_clean)
        judged(domain) ==
            IF \E k \in 1..Len(SKIP_DOMAINS) : str_in(SKIP_DOMAINS[k], domain)
            THEN FALSE
            ELSE word_matches(re_words(str_lower(company_name)), alnum_only(domain))
    IN  judged(str_lower(url_netloc(url)))

\* the destination a result link wraps: unquote(href.split('uddg=')[1])
actual_url(href) == url_unquote(str_split(href, UDDG)[2])

\* a search that does not look at the status of the results page
search_ignoring_status(response, company_name) ==
    IF response.exc THEN << >>
    ELSE LET first_of(hits) == IF hits = << >> THEN << >> ELSE actual_url(hits[1])
         IN  first_of(SelectSeq(response.links,
                 LAMBDA href : /\ str_in(UDDG, href)
                               /\ is_likely_company_website(actual_url(href), company_name)))

\* _search_via_web on the search page's response
search_via_web(response, company_name) ==
    IF response.exc \/ response.status # 200 THEN << >>
    ELSE LET first_of(hits) == IF hits = << >> THEN << >> ELSE actual_url(hits[1])
         IN  first_of(SelectSeq(response.links,
                 LAMBDA href : /\ str_in(UDDG, href)
                               /\ is_likely_company_website(actual_url(href), company_name)))

(***************************************************************************)
(* LLM analyzer: response parsing                                          *)
(***************************************************************************)
AnalysisResult(summary, industry, automation_pitch) ==
    [summary |-> summary, industry |-> industry, automation_pitch |-> automation_pitch]

\* {"summary": "", "automation_pitch": "", "industry": ""}
EMPTY_ANALYSIS == AnalysisResult(<< >>, << >>, << >>)

MAX_FIELD_LENGTH == 500

MIN_LINE_LENGTH == 10

\* the character U+0060, which a TLA+ string cannot hold
BACKTICK == "backtick"

FENCE_JSON == << BACKTICK, BACKTICK, BACKTICK, "j","s","o","n" >>

FENCE == << BACKTICK, BACKTICK, BACKTICK >>

KEY_SUMMARY == <<"s","u","m","m","a","r","y">>

KEY_INDUSTRY == <<"i","n","d","u","s","t","r","y">>

KEY_PITCH == <<"a","u","t","o","m","a","t","i","o","n","_","p","i","t","c","h">>

SUMMARY_WORDS == << <<"s","u","m","m","a","r","y">>,
                    <<"a","b","o","u","t">>,
                    <<"d","e","s","c","r","i","p","t","i","o","n">> >>

INDUSTRY_WORDS == << <<"i","n","d","u","s","t","r","y">>,
                     <<"s","e","c","t","o","r">>,
                     <<"b","u","s","i","n","e","s","s">> >>

PITCH_WORDS == << <<"a","u","t","o","m","a","t","i","o","n">>,
                  <<"p","i","t","c","h">>,
                  <<"s","o","l","u","t","i","o","n">> >>

\* any(word in line.lower() for word in words)
any_word_in(words, line) ==
    \E k \in 1..Len(words) : str_in(words[k], str_lower(line))

\* one iteration of the line loop of _parse_text_response;
\* st = [result, current_key], current_key = "" stands for None
parse_line(st, raw_line) ==
    LET line == str_strip(raw_line)
        captured == str_strip(str_after_first(line, << ":" >>))
        has_colon == str_in(<< ":" >>, line)
    IN  IF line = << >> THEN st
        ELSE IF any_word_in(SUMMARY_WORDS, line)
        THEN [result |-> IF has_colon
                         THEN [st.result EXCEPT !.summary = captured]
                         ELSE st.result,
              current_key |-> "summary"]
        ELSE IF any_word_in(INDUSTRY_WORDS, line)
        THEN [result |-> IF has_colon
                         THEN [st.result EXCEPT !.industry = captured]
                         ELSE st.result,
              current_key |-> "industry"]
        ELSE IF any_word_in(PITCH_WORDS, line)
        THEN [result |-> IF has_colon
                         THEN [st.result EXCEPT !.automation_pitch = captured]
                         ELSE st.result,
              current_key |-> "automation_pitch"]
        ELSE IF st.current_key # "" /\ Len(line) > MIN_LINE_LENGTH
        THEN [st EXCEPT !.result[st.current_key] =
                 IF st.result[st.current_key] # << >>
                 THEN st.result[st.current_key] \o << " " >> \o line
                 ELSE line]
        ELSE st

RECURSIVE parse_lines(_, _, _)
parse_lines(st, lines, k) ==
    IF k > Len(lines) THEN st
    ELSE parse_lines(parse_line(st, lines[k]), lines, k + 1)

\* result[key] = result[key][:500] for every key
limit_fields(result) ==
    AnalysisResult(str_prefix(result.summary, MAX_FIELD_LENGTH),
                   str_prefix(result.industry, MAX_FIELD_LENGTH),
                   str_prefix(result.automation_pitch, MAX_FIELD_LENGTH))

\* _parse_text_response
parse_text_response(content) ==
    limit_fields(parse_lines([result |-> EMPTY_ANALYSIS, current_key |-> ""],
                             str_split(content, << "\n" >>), 1).result)

(***************************************************************************)
(* json.loads on the block the regex finds.  Modelled input domain: one    *)
(* object whose keys are strings and whose values are strings, integers    *)
(* or null/true/false; string escapes \" \\ \/ \n \t \r.  Anything else    *)
(* that json.loads rejects is rejected (JSONDecodeError): raw control      *)
(* characters in a string, a trailing comma, a missing colon, text after   *)
(* the object.                                                             *)
(***************************************************************************)
JSON_WS == {" ", "\n", "\t", "\r"}

JSON_ERROR == [ok |-> FALSE]

json_skip_ws(s, p) ==
    IF \A q \in p..Len(s) : s[q] \in JSON_WS THEN Len(s) + 1
    ELSE CHOOSE q \in p..Len(s) :
             s[q] \notin JSON_WS /\ \A r \in p..(q-1) : s[r] \in JSON_WS

\* the number of backslashes immediately before position q
backslashes_before(s, q) ==
    IF \A r \in 1..(q-1) : s[r] = "\\" THEN q - 1
    ELSE q - 1 - (CHOOSE r \in 1..(q-1) :
                      s[r] # "\\" /\ \A t \in (r+1)..(q-1) : s[t] = "\\")

closes_string(s, q) == s[q] = "\"" /\ backslashes_before(s, q) % 2 = 0

RECURSIVE json_unescape(_)
json_unescape(raw) ==
    LET plain(e) == IF e = "n" THEN "\n" ELSE IF e = "t" THEN "\t"
                    ELSE IF e = "r" THEN "\r" ELSE e
        joined(i, rest) ==
            IF ~rest.ok THEN JSON_ERROR
            ELSE [ok |-> TRUE,
                  val |-> SubSeq(raw, 1, i - 1) \o << plain(raw[i + 1]) >> \o rest.val]
        from_backslash(i) ==
            IF i = 0 THEN [ok |-> TRUE, val |-> raw]
            ELSE IF i = Len(raw) \/ raw[i + 1] \notin {"\"", "\\", "/", "n", "t", "r"}
            THEN JSON_ERROR
            ELSE joined(i, json_unescape(SubSeq(raw, i + 2, Len(raw))))
    IN  from_backslash(str_find(raw, << "\\" >>))

\* a string starting at the quote s[p]
json_string(s, p) ==
    LET decoded(q, dec) ==
            IF ~dec.ok THEN JSON_ERROR
            ELSE [ok |-> TRUE, t |-> "str", val |-> dec.val, next |-> q + 1]
        closed_at(q) ==
            IF \E i \in (p+1)..(q-1) : s[i] \in {"\n", "\t", "\r"} THEN JSON_ERROR
            ELSE decoded(q, json_unescape(SubSeq(s, p + 1, q - 1)))
    IN  IF ~\E q \in (p+1)..Len(s) : closes_string(s, q) THEN JSON_ERROR
        ELSE closed_at(CHOOSE q \in (p+1)..Len(s) :
                 closes_string(s, q) /\ \A r \in (p+1)..(q-1) : ~closes_string(s, r))

json_is_integer(w) ==
    LET d == IF w # << >> /\ w[1] = "-" THEN Tail(w) ELSE w
    IN  /\ d # << >>
        /\ \A i \in 1..Len(d) : d[i] \in Digits
        /\ (Len(d) = 1 \/ d[1] # "0")

\* a value starting at s[p]
json_value(s, p) ==
    IF p > Len(s) THEN JSON_ERROR
    ELSE IF s[p] = "\"" THEN json_string(s, p)
    ELSE LET isTok(c) == IsAlnum(c) \/ c \in {"-", "+", "."}
             literal(w, e) ==
                 IF w \in {<<"n","u","l","l">>, <<"t","r","u","e">>, <<"f","a","l","s","e">>}
                    \/ json_is_integer(w)
                 THEN [ok |-> TRUE, t |-> "other", val |-> w, next |-> e + 1]
                 ELSE JSON_ERROR
             ends_at(e) == literal(SubSeq(s, p, e), e)
         IN  ends_at(IF \A q \in p..Len(s) : isTok(s[q]) THEN Len(s)
                     ELSE (CHOOSE q \in p..Len(s) :
                               ~isTok(s[q]) /\ \A r \in p..(q-1) : isTok(s[r])) - 1)

\* the members of an object from the key at s[p] on; acc holds the pairs read
RECURSIVE json_members(_, _, _)
json_members(s, p, acc) ==
    IF p > Len(s) \/ s[p] # "\"" THEN JSON_ERROR
    ELSE LET after_pair(pairs, d) ==
                 IF d > Len(s) THEN JSON_ERROR
                 ELSE IF s[d] = "," THEN json_members(s, json_skip_ws(s, d + 1), pairs)
                 ELSE IF s[d] = "}" THEN [ok |-> TRUE, obj |-> pairs, next |-> d + 1]
                 ELSE JSON_ERROR
             with_value(k, v) ==
                 IF ~v.ok THEN JSON_ERROR
                 ELSE after_pair(Append(acc, [key |-> k.val, t |-> v.t, val |-> v.val]),
                                 json_skip_ws(s, v.next))
             at_colon(k, c) ==
                 IF c > Len(s) \/ s[c] # ":" THEN JSON_ERROR
                 ELSE with_value(k, json_value(s, json_skip_ws(s, c + 1)))
             with_key(k) ==
                 IF ~k.ok THEN JSON_ERROR ELSE at_colon(k, json_skip_ws(s, k.next))
         IN  with_key(json_string(s, p))

\* json.loads(s): [ok |-> FALSE] is JSONDecodeError
json_loads(s) ==
    LET object_read(r) ==
            IF ~r.ok THEN JSON_ERROR
            ELSE IF json_skip_ws(s, r.next) <= Len(s) THEN JSON_ERROR
            ELSE [ok |-> TRUE, obj |-> r.obj]
        inside(q) ==
            object_read(IF q <= Len(s) /\ s[q] = "}"
                        THEN [ok |-> TRUE, obj |-> << >>, next |-> q + 1]
                        ELSE json_members(s, q, << >>))
        starts_at(p) ==
            IF p > Len(s) \/ s[p] # "{" THEN JSON_ERROR
            ELSE inside(json_skip_ws(s, p + 1))
    IN  starts_at(json_skip_ws(s, 1))

\* json_data.get(key, ""): the last pair with that key wins
json_get(obj, key) ==
    LET idx == {i \in 1..Len(obj) : obj[i].key = key}
    IN  IF idx = {} THEN [t |-> "str", val |-> << >>]
        ELSE LET i == CHOOSE i \in idx : \A j \in idx : j <= i
             IN  [t |-> obj[i].t, val |-> obj[i].val]

\* re.search(r'\{.*\}', content, re.DOTALL): first "{" to last "}"
json_match(content) ==
    LET span(open, close) ==
            IF close < open THEN [found |-> FALSE]
            ELSE [found |-> TRUE, group |-> SubSeq(content, open, close)]
        between(open, closes) ==
            IF open = 0 \/ closes = {} THEN [found |-> FALSE]
            ELSE span(open, CHOOSE i \in closes : \A j \in closes : j <= i)
    IN  between(str_find(content, << "{" >>), {i \in 1..Len(content) : content[i] = "}"})

\* the dict built from json_data; .strip() of a non-str value raises
\* AttributeError, which the analyzers' outer except turns into empty fields
fields_of(json_data) ==
    LET stripped(s, i, a) ==
            IF s.t # "str" \/ i.t # "str" \/ a.t # "str" THEN EMPTY_ANALYSIS
            ELSE AnalysisResult(str_strip(s.val), str_strip(i.val), str_strip(a.val))
    IN  stripped(json_get(json_data, KEY_SUMMARY), json_get(json_data, KEY_INDUSTRY),
                 json_get(json_data, KEY_PITCH))

(***************************************************************************)
(* LLM analyzer: the two providers                                         *)
(*                                                                         *)
(* A provider reply is [kind, text]:                                       *)
(*   "transport"  requests.post raised (connection error, timeout)         *)
(*   "http_error" raise_for_status raised (non-success status)             *)
(*   "no_choices" the JSON has no (or an empty) choices / candidates list  *)
(*   "no_content" the first choice lacks the content field (KeyError)      *)
(*   "text"       the content field holds text                             *)
(***************************************************************************)
ProviderReply(kind, text) == [kind |-> kind, text |-> text]

\* config.GROQ_API_KEY is set and is not the placeholder
GROQ_API_KEY_SET == TRUE

\* config.GEMINI_API_KEY is set
GEMINI_API_KEY_SET == TRUE

\* the replacement fields str.format finds in each prompt template: the
\* Gemini template ends with an unescaped { "summary": ... } block, whose
\* text up to the first colon is read as a field name
GROQ_ANALYSIS_PROMPT == << "company_name", "website_content" >>

GEMINI_ANALYSIS_PROMPT == << "company_name", "website_content", "\n    \"summary\"" >>

\* template.format(company_name=..., website_content=...) raises KeyError
format_raises(template) ==
    \E k \in 1..Len(template) : template[k] \notin {"company_name", "website_content"}

\* an except clause that reports the error in the summary, as the one of
\* enrich_company does, instead of returning empty fields
groq_response_reporting(reply) ==
    IF reply.kind \in {"transport", "http_error", "no_content"}
    THEN AnalysisResult(<< "E","r","r","o","r" >>, << >>, << >>)
    ELSE IF reply.kind = "no_choices" THEN EMPTY_ANALYSIS
    ELSE LET loaded(content, json_data) ==
                 IF ~json_data.ok THEN parse_text_response(content)
                 ELSE fields_of(json_data.obj)
             searched(content, json_match_) ==
                 IF ~json_match_.found THEN EMPTY_ANALYSIS
                 ELSE loaded(content, json_loads(json_match_.group))
             cleaned(content) == searched(content, json_match(content))
         IN  cleaned(str_strip(str_replace(str_replace(str_strip(reply.text),
                                  FENCE_JSON, << >>), FENCE, << >>)))

\* analyze_with_groq from the reply on
groq_response(reply) ==
    IF reply.kind \in {"transport", "http_error", "no_content"} THEN EMPTY_ANALYSIS
    ELSE IF reply.kind = "no_choices" THEN EMPTY_ANALYSIS
    ELSE LET loaded(content, json_data) ==
                 IF ~json_data.ok THEN parse_text_response(content)
                 ELSE fields_of(json_data.obj)
             searched(content, json_match_) ==
                 IF ~json_match_.found THEN EMPTY_ANALYSIS
                 ELSE loaded(content, json_loads(json_match_.group))
             cleaned(content) == searched(content, json_match(content))
         IN  cleaned(str_strip(str_replace(str_replace(str_strip(reply.text),
                                  FENCE_JSON, << >>), FENCE, << >>)))

analyze_with_groq(reply) ==
    IF ~GROQ_API_KEY_SET THEN EMPTY_ANALYSIS
    ELSE IF format_raises(GROQ_ANALYSIS_PROMPT) THEN EMPTY_ANALYSIS
    ELSE groq_response(reply)

\* analyze_with_gemini from the reply on
gemini_response(reply) ==
    IF reply.kind \in {"transport", "http_error", "no_content"} THEN EMPTY_ANALYSIS
    ELSE IF reply.kind = "no_choices" THEN EMPTY_ANALYSIS
    ELSE LET loaded(content, json_data) ==
                 IF json_data.ok THEN fields_of(json_data.obj)
                 ELSE parse_text_response(content)
             searched(content, json_match_) ==
                 IF json_match_.found THEN loaded(content, json_loads(json_match_.group))
                 ELSE parse_text_response(content)
             cleaned(content) == searched(content, json_match(content))
         IN  cleaned(str_strip(reply.text))

analyze_with_gemini(reply) ==
    IF ~GEMINI_API_KEY_SET THEN EMPTY_ANALYSIS
    ELSE IF format_raises(GEMINI_ANALYSIS_PROMPT) THEN EMPTY_ANALYSIS
    ELSE gemini_response(reply)

(***************************************************************************)
(* Content extraction: scrape_website_content on the page's response       *)
(***************************************************************************)
scrape_website_content(response) ==
    IF response.exc \/ response.status >= 400 THEN << >>
    ELSE LET content_areas == SelectSeq(response.regions,
                                  LAMBDA text : Len(text) > MIN_CONTENT_LENGTH)
             full_text == str_strip(collapse_ws(str_join(content_areas)))
         IN  IF full_text # << >> THEN str_prefix(full_text, MAX_CONTENT_LENGTH)
             ELSE << >>

(***************************************************************************)
(* Orchestration: CompanyData and the texts of enrich_company, process_csv *)
(* and run_enrichment_with_df                                              *)
(***************************************************************************)
\* the fields of CompanyData that are written out (company_size and
\* hq_location are never assigned)
CompanyData(name) ==
    [name |-> name, website |-> << >>, industry |-> << >>,
     summary |-> << >>, automation_pitch |-> << >>]

COMPANY_NAME_PREFIX == << "C","o","m","p","a","n","y"," ","n","a","m","e",":"," " >>

COMPANY_WEBSITE_PREFIX == << "C","o","m","p","a","n","y"," ","w","e","b","s","i","t","e",":"," " >>

NOT_AVAILABLE_PREFIX == << "C","o","m","p","a","n","y"," ","i","n","f","o","r","m","a","t","i","o","n"," ","f","o","r"," " >>

NOT_AVAILABLE_SUFFIX == << " ","n","o","t"," ","a","v","a","i","l","a","b","l","e" >>

UNKNOWN_INDUSTRY == << "U","n","k","n","o","w","n" >>

DEFAULT_PITCH == << "C","o","n","t","a","c","t"," ","Q","F"," ","I","n","n","o","v","a","t","e"," ","f","o","r"," ","c","u","s","t","o","m"," ","A","I"," ","a","u","t","o","m","a","t","i","o","n"," ","s","o","l","u","t","i","o","n","s" >>

ENRICH_ERROR_PREFIX == << "E","r","r","o","r"," ","d","u","r","i","n","g"," ","p","r","o","c","e","s","s","i","n","g",":"," " >>

CSV_ERROR_PREFIX == << "P","r","o","c","e","s","s","i","n","g"," ","e","r","r","o","r",":"," " >>

DASH_ERROR_PREFIX == << "E","r","r","o","r"," ","p","r","o","c","e","s","s","i","n","g"," " >>

NAN_TEXT == << "n","a","n" >>

NONE_TEXT == << "n","o","n","e" >>

\* analysis.get(key, default) on the dict an analyzer returned
dict_get(analysis, key, default) ==
    IF key \in DOMAIN analysis THEN analysis[key] ELSE default

\* a fallback test that fires on any empty field, not on the summary alone
fallback_on_any_empty(analysis) ==
    \/ DOMAIN analysis = {}
    \/ \E key \in {"summary", "industry", "automation_pitch"} :
           dict_get(analysis, key, << >>) = << >>

\* "not analysis or not analysis.get('summary')": the secondary provider is due
needs_fallback(analysis) ==
    DOMAIN analysis = {} \/ dict_get(analysis, "summary", << >>) = << >>

\* the content both analyzers get when no website was found
name_only_content(company_name) == COMPANY_NAME_PREFIX \o company_name

\* the content the analyzers get for a website: the scraped text, or the
\* one-line fallback naming the URL
content_or_fallback(scraped, website) ==
    IF scraped = << >> THEN COMPANY_WEBSITE_PREFIX \o website ELSE scraped

\* lines 399-401: the branch without a website
assign_without_website(company, analysis) ==
    [company EXCEPT
        !.summary = dict_get(analysis, "summary",
                        NOT_AVAILABLE_PREFIX \o company.name \o NOT_AVAILABLE_SUFFIX),
        !.industry = dict_get(analysis, "industry", UNKNOWN_INDUSTRY),
        !.automation_pitch = dict_get(analysis, "automation_pitch", DEFAULT_PITCH)]

\* an assignment that substitutes the branch-1 defaults for empty values
\* (analysis.get(key) or default)
assign_with_defaults(company, analysis) ==
    [company EXCEPT
        !.summary = IF dict_get(analysis, "summary", << >>) = << >>
                    THEN NOT_AVAILABLE_PREFIX \o company.name \o NOT_AVAILABLE_SUFFIX
                    ELSE analysis.summary,
        !.industry = IF dict_get(analysis, "industry", << >>) = << >>
                     THEN UNKNOWN_INDUSTRY ELSE analysis.industry,
        !.automation_pitch = IF dict_get(analysis, "automation_pitch", << >>) = << >>
                             THEN DEFAULT_PITCH ELSE analysis.automation_pitch]

\* an assignment that forgets the industry and the pitch
assign_summary_only(company, analysis) ==
    [company EXCEPT !.summary = dict_get(analysis, "summary", << >>)]

\* lines 425-427: the branch with a website
assign_with_website(company, analysis) ==
    [company EXCEPT
        !.summary = dict_get(analysis, "summary", << >>),
        !.industry = dict_get(analysis, "industry", << >>),
        !.automation_pitch = dict_get(analysis, "automation_pitch", << >>)]

\* lines 434-436: the except clause of enrich_company
enrich_error(company, message) ==
    [company EXCEPT !.summary = ENRICH_ERROR_PREFIX \o message]

\* the row appended for a company that was enriched
output_row(company) ==
    [company_name |-> company.name, website |-> company.website,
     industry |-> company.industry, summary_from_llm |-> company.summary,
     automation_pitch_from_llm |-> company.automation_pitch]

\* the row process_csv appends when enrich_company raised
csv_error_row(company_name, message) ==
    [company_name |-> company_name, website |-> << >>, industry |-> << >>,
     summary_from_llm |-> CSV_ERROR_PREFIX \o message,
     automation_pitch_from_llm |-> << >>]

\* the row the dashboard loop appends when enrich_company raised
dashboard_error_row(company_name, message) ==
    [company_name |-> company_name, website |-> << >>, industry |-> << >>,
     summary_from_llm |-> DASH_ERROR_PREFIX \o company_name \o << ":", " " >> \o message,
     automation_pitch_from_llm |-> << >>]

(***************************************************************************)
(* Input tables.  A cell of the company_name column is [nan, text]: nan    *)
(* for an empty cell (pandas reads it as NaN), text otherwise.  A          *)
(* dataframe is a sequence of [label, cell]: label is the row's index.     *)
(***************************************************************************)
Cell(nan, text) == [nan |-> nan, text |-> text]

\* str(row['company_name']).strip()
row_name(cell) == str_strip(IF cell.nan THEN NAN_TEXT ELSE cell.text)

\* pd.read_csv: the rows get the labels 0, 1, 2, ...
read_csv(cells) == [i \in 1..Len(cells) |-> [label |-> i - 1, cell |-> cells[i]]]

\* main() of the dashboard: dropna, drop the names that are empty after
\* strip, strip the rest; the surviving rows keep their labels
clean_dataframe(df) ==
    LET kept == SelectSeq(df, LAMBDA r : ~r.cell.nan /\ str_strip(r.cell.text) # << >>)
    IN  [i \in 1..Len(kept) |->
            [label |-> kept[i].label, cell |-> Cell(FALSE, str_strip(kept[i].cell.text))]]

\* the dashboard loop's "skip empty names" test
dashboard_skips(company_name) ==
    company_name = << >> \/ str_lower(company_name) \in {NAN_TEXT, NONE_TEXT, << >>}

\* progress = (idx + 1) / total_companies; st.progress raises outside [0, 1]
progress_raises(label, total_companies) == label + 1 > total_companies

(***************************************************************************)
(* The environment: what the web and the providers may answer              *)
(***************************************************************************)
filler(n) == [i \in 1..n |-> "x"]

\* text of n characters in words of seven letters
words_text(n) == [i \in 1..n |-> IF i % 8 = 0 /\ i < n THEN " " ELSE "w"]

PARKED_BANNER == << "<","h","1",">","T","h","i","s"," ","i","s"," ","a"," ","P","a","r","k","e","d"," ","D","o","m","a","i","n","<","/","h","1",">" >>

REGION_ABOUT == << "A","b","o","u","t"," ","A","c","m","e",":","\n"," "," "," ","w","e"," ","b","u","i","l","d"," "," "," ","i","n","d","u","s","t","r","i","a","l"," ","w","i","d","g","e","t","s"," ","f","o","r"," ","f","a","c","t","o","r","i","e","s","\t","w","o","r","l","d","w","i","d","e" >>

HREF_PLAIN == << "h","t","t","p","s",":","/","/","a","c","m","e",".","c","o","m","/","a","b","o","u","t" >>

HREF_SKIPPED == << "/","l","/","?","u","d","d","g","=","h","t","t","p","s","%","3","A","%","2","F","%","2","F","w","w","w",".","l","i","n","k","e","d","i","n",".","c","o","m","%","2","F","c","o","m","p","a","n","y","%","2","F","a","c","m","e","&","r","u","t","=","1" >>

HREF_OTHER == << "/","/","d","u","c","k","d","u","c","k","g","o",".","c","o","m","/","l","/","?","u","d","d","g","=","h","t","t","p","s","%","3","A","%","2","F","%","2","F","w","w","w",".","e","x","a","m","p","l","e",".","o","r","g","%","2","F","&","r","u","t","=","2" >>

HREF_MATCH == << "/","/","d","u","c","k","d","u","c","k","g","o",".","c","o","m","/","l","/","?","u","d","d","g","=","h","t","t","p","s","%","3","A","%","2","F","%","2","F","w","w","w",".","a","c","m","e","%","2","D","c","o","r","p",".","c","o","m","%","2","F","&","r","u","t","=","3" >>

HREF_BLOG == << "/","/","d","u","c","k","d","u","c","k","g","o",".","c","o","m","/","l","/","?","u","d","d","g","=","h","t","t","p","s","%","3","A","%","2","F","%","2","F","a","c","m","e",".","m","e","d","i","u","m",".","c","o","m","%","2","F","&","r","u","t","=","4" >>

HREF_MATCH_LATER == << "/","/","d","u","c","k","d","u","c","k","g","o",".","c","o","m","/","l","/","?","u","d","d","g","=","h","t","t","p","s","%","3","A","%","2","F","%","2","F","a","c","m","e",".","e","x","a","m","p","l","e",".","n","e","t","%","2","F" >>

R_EXC == Response(TRUE, 0, << >>, << >>, << >>)

\* a page worth scraping: two regions over the threshold, one under it
GOOD_REGIONS == << REGION_ABOUT, filler(MIN_CONTENT_LENGTH), words_text(MIN_CONTENT_LENGTH + 1) >>

R_NOT_FOUND == Response(FALSE, 404, filler(MIN_PROBE_BYTES + 1), GOOD_REGIONS, << >>)

R_SMALL == Response(FALSE, 200, filler(MIN_PROBE_BYTES), GOOD_REGIONS, << >>)

R_PARKED == Response(FALSE, 200, PARKED_BANNER \o filler(MIN_PROBE_BYTES), << >>, << >>)

R_OK == Response(FALSE, 200, filler(MIN_PROBE_BYTES + 1), GOOD_REGIONS, << >>)

ProbeResponses == {R_EXC, R_NOT_FOUND, R_SMALL, R_PARKED, R_OK}

\* pages for the extractor: nothing over the threshold, more than the limit
R_THIN == Response(FALSE, 200, filler(MIN_PROBE_BYTES + 1),
                   << filler(MIN_CONTENT_LENGTH), << "A","c","m","e" >> >>, << >>)

R_LONG == Response(FALSE, 200, filler(MIN_PROBE_BYTES + 1),
                   << words_text(MAX_CONTENT_LENGTH), REGION_ABOUT >>, << >>)

ScrapeResponses == {R_EXC, R_NOT_FOUND, R_THIN, R_OK, R_LONG}

\* search result pages
R_SEARCH_HITS == Response(FALSE, 200, << >>, << >>,
                    << HREF_PLAIN, HREF_SKIPPED, HREF_OTHER, HREF_MATCH, HREF_MATCH_LATER >>)

R_SEARCH_MISS == Response(FALSE, 200, << >>, << >>,
                    << HREF_PLAIN, HREF_SKIPPED, HREF_OTHER, HREF_BLOG >>)

R_SEARCH_ERROR == Response(FALSE, 500, << >>, << >>, << HREF_MATCH >>)

SearchResponses == {R_EXC, R_SEARCH_ERROR, R_SEARCH_MISS, R_SEARCH_HITS}

JSON_FULL == << "{","\"","s","u","m","m","a","r","y","\"",":","\"","A","c","m","e"," ","b","u","i","l","d","s"," ","i","n","d","u","s","t","r","i","a","l"," ","w","i","d","g","e","t","s",".","\"",",","\"","i","n","d","u","s","t","r","y","\"",":","\"","M","a","n","u","f","a","c","t","u","r","i","n","g","\"",",","\"","a","u","t","o","m","a","t","i","o","n","_","p","i","t","c","h","\"",":","\"","A","u","t","o","m","a","t","e"," ","Q","A"," ","i","n","s","p","e","c","t","i","o","n"," ","w","i","t","h"," ","v","i","s","i","o","n"," ","A","I",".","\"","}" >>

JSON_PADDED == << "{"," ","\"","s","u","m","m","a","r","y","\""," ",":"," ","\""," "," ","A","c","m","e"," ","b","u","i","l","d","s"," ","w","i","d","g","e","t","s","."," ","\"",","," ","\"","i","n","d","u","s","t","r","y","\"",":"," ","\"","T","e","c","h","\\","n","\""," ","}" >>

JSON_NO_SUMMARY == << "{","\"","i","n","d","u","s","t","r","y","\"",":"," ","\"","T","e","c","h","\"",","," ","\"","a","u","t","o","m","a","t","i","o","n","_","p","i","t","c","h","\"",":"," ","\"","A","u","t","o","m","a","t","e"," ","b","i","l","l","i","n","g","\"","}" >>

JSON_BLANK_SUMMARY == << "{","\"","s","u","m","m","a","r","y","\"",":"," ","\""," ","\"",","," ","\"","i","n","d","u","s","t","r","y","\"",":"," ","\"","T","e","c","h","\"",","," ","\"","a","u","t","o","m","a","t","i","o","n","_","p","i","t","c","h","\"",":"," ","\"","A","u","t","o","m","a","t","e"," ","b","i","l","l","i","n","g","\"","}" >>

JSON_TRAILING_COMMA == << "{","\"","s","u","m","m","a","r","y","\"",":"," ","\"","w","i","d","g","e","t","s","\"",","," ","}" >>

JSON_NUMBER == << "{","\"","s","u","m","m","a","r","y","\"",":"," ","5",","," ","\"","i","n","d","u","s","t","r","y","\"",":"," ","\"","T","e","c","h","\"","}" >>

\* a valid object whose summary value holds a code-fence marker
JSON_FENCE_IN_VALUE == << "{","\"","s","u","m","m","a","r","y","\"",":"," ","\"","U","s","e"," ",BACKTICK,BACKTICK,BACKTICK,"y","a","m","l"," ","b","l","o","c","k","s","\"",","," ","\"","i","n","d","u","s","t","r","y","\"",":"," ","\"","T","e","c","h","\"","}" >>

JSON_OPEN_SUMMARY == << "{","\"","s","u","m","m","a","r","y","\"",":"," ","\"" >>

JSON_CLOSE == << "\"","}" >>

PROSE_FIELDS == << "S","u","m","m","a","r","y",":"," ","w","i","d","g","e","t","s","\n","I","n","d","u","s","t","r","y",":"," ","T","e","c","h" >>

PROSE_PLAIN == << "I"," ","c","a","n","n","o","t"," ","h","e","l","p"," ","w","i","t","h"," ","t","h","a","t"," ","r","e","q","u","e","s","t","." >>

PROSE_SUMMARY_LABEL == << "S","u","m","m","a","r","y",":"," " >>

PRE_PROSE == << "H","e","r","e"," ","y","o","u"," ","g","o",":","\n" >>

PRE_FENCE == << BACKTICK,BACKTICK,BACKTICK,"j","s","o","n","\n" >>

POST_FENCE == << "\n",BACKTICK,BACKTICK,BACKTICK >>

POST_PROSE == << "\n","H","o","p","e"," ","t","h","i","s"," ","h","e","l","p","s","!" >>

\* a JSON object whose summary is one character over the field limit
JSON_LONG_SUMMARY == JSON_OPEN_SUMMARY \o filler(MAX_FIELD_LENGTH + 1) \o JSON_CLOSE

\* prose whose summary line is one character over the field limit
PROSE_LONG_SUMMARY == PROSE_SUMMARY_LABEL \o filler(MAX_FIELD_LENGTH + 1)

FailureReplies ==
    {ProviderReply(k, << >>) : k \in {"transport", "http_error", "no_choices", "no_content"}}

\* the objects a provider may send, the texts around them, and the rest
JsonBodies == {JSON_FULL, JSON_PADDED, JSON_NO_SUMMARY, JSON_BLANK_SUMMARY, JSON_LONG_SUMMARY,
               JSON_FENCE_IN_VALUE}

Prefixes == {<< >>, PRE_PROSE, PRE_FENCE, PRE_PROSE \o PRE_FENCE}

Suffixes == {<< >>, POST_FENCE, POST_PROSE, POST_FENCE \o POST_PROSE}

WrappedJson == {pre \o body \o post : pre \in Prefixes, body \in JsonBodies, post \in Suffixes}

OtherTexts == {JSON_TRAILING_COMMA, JSON_NUMBER, PROSE_FIELDS, PROSE_PLAIN, PROSE_LONG_SUMMARY,
               PRE_PROSE \o JSON_TRAILING_COMMA \o POST_PROSE, << >>}

\* every reply the analyzers are checked on
AnalyzerReplies ==
    FailureReplies \cup {ProviderReply("text", t) : t \in WrappedJson \cup OtherTexts}

\* the replies one enrich_company call may meet
GroqReplies ==
    {ProviderReply("transport", << >>), ProviderReply("no_choices", << >>)}
    \cup {ProviderReply("text", t) :
            t \in {PRE_PROSE \o PRE_FENCE \o JSON_FULL \o POST_FENCE, JSON_BLANK_SUMMARY,
                   JSON_LONG_SUMMARY, PROSE_FIELDS, JSON_TRAILING_COMMA, JSON_PADDED,
                   JSON_FENCE_IN_VALUE}}

GeminiReplies ==
    {ProviderReply("transport", << >>), ProviderReply("text", JSON_FULL)}

NAME_ACME == << "A","c","m","e" >>

NAME_ACME_CORP == << "A","c","m","e"," ","C","o","r","p" >>

NAME_QA == << "Q","&","A" >>

CELL_BLANK == << " "," " >>

CELL_ACME_PADDED == << " ","A","c","m","e"," " >>

ERROR_MESSAGE == << "o","u","t"," ","o","f"," ","m","e","m","o","r","y" >>

DOT_IO == << ".","i","o" >>

ACME_CORP_HOST == << "a","c","m","e","-","c","o","r","p" >>

CELL_NONE == << "N","O","N","E" >>

(***************************************************************************)
(* Bounds                                                                  *)
(***************************************************************************)
\* rows of an input table
MaxRows == 2

\* content regions of a page handed to the extractor
MaxRegions == 2

\* lines of a text handed to the heuristic parser
MaxLines == 3

\* pieces a company name given to website discovery is made of
MaxPieces == 2

(***************************************************************************)
(* State                                                                   *)
(***************************************************************************)
VARIABLES
    mode,            \* "call": one enrich_company call; "csv": process_csv;
                     \* "dashboard": run_enrichment_with_df; "analyze" and
                     \* "scrape": one application of an analyzer / the extractor
    world,           \* what the environment answers (fixed for a batch run)
    table,           \* the company_name cells of the input file
    df,              \* the dataframe the loop iterates: [label, cell] rows
    pos,             \* rows of df the loop has finished with
    enriched_data,   \* the rows appended so far
    pc,              \* where the program is
    company_name,    \* the argument of the current enrich_company call
    company,         \* its CompanyData
    probe_i,         \* index of the next candidate _try_common_domains fetches
    fetched,         \* every session.get of the current call: [by, url]
    last_response,   \* the response of the last session.get
    website_content, \* the content handed to the analyzers
    calls,           \* the analyzer calls of the current call, in order
    analysis,        \* the dict the last analyzer call returned
    last_reply,      \* the provider reply the primary analyzer got
    slept,           \* time.sleep(REQUEST_DELAY) calls of the current call
    error,           \* message of the exception that left enrich_company
    first_run,       \* the output of the run before this one, once there is one
    output_df        \* the dataframe the run made of its rows: [columns, rows]

vars == << mode, world, table, df, pos, enriched_data, pc, company_name, company,
           probe_i, fetched, last_response, website_content, calls, analysis,
           last_reply, slept, error, first_run, output_df >>

batch_vars == << mode, world, table, df, pos, enriched_data, first_run, output_df >>

\* no run has finished before this one
NO_RUN == [done |-> FALSE, rows |-> << >>]

\* the keys of an appended row, in the order of the dict literal
ROW_KEYS == << "company_name", "website", "industry", "summary_from_llm",
               "automation_pitch_from_llm" >>

\* pd.DataFrame(enriched_data) on a list of dicts: the columns are the keys of
\* the rows in the order they first appear; an empty list has no columns
DataFrame(rows) ==
    [columns |-> IF rows = << >> THEN << >> ELSE ROW_KEYS, rows |-> rows]

\* no dataframe has been made of the rows
NO_OUTPUT == [columns |-> << >>, rows |-> << >>]

NO_RESPONSE == Response(FALSE, 0, << >>, << >>, << >>)

NO_REPLY == ProviderReply("none", << >>)

\* the inputs of one enrich_company call: names as process_csv passes them
CallNames == {NAME_ACME, NAME_ACME_CORP, NAME_QA, << >>}

\* the cells of an input table
Cells == {Cell(TRUE, << >>), Cell(FALSE, CELL_BLANK), Cell(FALSE, CELL_ACME_PADDED),
          Cell(FALSE, CELL_NONE)}

RECURSIVE SeqsUpTo(_, _)
SeqsUpTo(S, n) ==
    IF n = 0 THEN {<< >>}
    ELSE LET shorter == SeqsUpTo(S, n - 1)
         IN  shorter \cup {Append(q, x) : q \in {r \in shorter : Len(r) = n - 1}, x \in S}

\* where an unexpected error may strike in a batch run
FaultPoints == {"groq", "log", "sleep"}

NO_FAULT == [row |-> 0, at |-> "none"]

\* a call under test meets any answer at every request
LAZY_WORLD == [lazy |-> TRUE, web |-> "any", groq |-> NO_REPLY, fault |-> NO_FAULT]

\* a batch run meets one fixed web, one provider behaviour and at most one
\* unexpected error
BatchWorlds ==
    [lazy : {FALSE}, web : {"down", "io", "search"},
     groq : {ProviderReply("transport", << >>), ProviderReply("text", JSON_FULL)},
     fault : {NO_FAULT} \cup [row : 1..MaxRows, at : FaultPoints]]

str_endswith(s, p) == Len(p) <= Len(s) /\ str_at(s, Len(s) - Len(p), p)

\* the answer of a fixed web to a GET of url
web_get(w, url) ==
    IF w.web = "down" THEN R_EXC
    ELSE IF w.web = "io"
    THEN IF str_endswith(url, DOT_IO) THEN R_OK ELSE R_NOT_FOUND
    ELSE IF str_at(url, 0, SEARCH_URL_PREFIX) THEN R_SEARCH_HITS
    ELSE IF str_in(ACME_CORP_HOST, url) THEN R_OK
    ELSE R_NOT_FOUND

ProbeEnv(url) == IF world.lazy THEN ProbeResponses ELSE {web_get(world, url)}

SearchEnv(url) == IF world.lazy THEN SearchResponses ELSE {web_get(world, url)}

ScrapeEnv(url) == IF world.lazy THEN ScrapeResponses ELSE {web_get(world, url)}

GroqEnv == IF world.lazy THEN GroqReplies ELSE {world.groq}

GeminiEnv == IF world.lazy THEN GeminiReplies ELSE {world.groq}

\* the unexpected error of a batch run strikes here
fault_here == ~world.lazy /\ world.fault.row = pos + 1 /\ world.fault.at = pc

may_raise == world.lazy \/ fault_here

CallInit ==
    /\ company = CompanyData(<< >>)
    /\ probe_i = 1
    /\ fetched = << >>
    /\ last_response = NO_RESPONSE
    /\ website_content = << >>
    /\ calls = << >>
    /\ analysis = EMPTY_ANALYSIS
    /\ last_reply = NO_REPLY
    /\ slept = 0
    /\ error = << >>

\* one enrich_company call on a name
Init ==
    /\ mode = "call"
    /\ world = LAZY_WORLD
    /\ table = << >>
    /\ df = << >>
    /\ pos = 0
    /\ enriched_data = << >>
    /\ first_run = NO_RUN
    /\ output_df = NO_OUTPUT
    /\ pc = "enrich"
    /\ company_name \in CallNames
    /\ CallInit

\* a batch run over a table: process_csv on the file as read, the dashboard
\* loop on the uploaded table as main() cleaned it (main() does not start the
\* loop on a table it cleaned to nothing)
InitBatch ==
    /\ mode \in {"csv", "dashboard"}
    /\ world \in BatchWorlds
    /\ table \in SeqsUpTo(Cells, MaxRows)
    /\ df = IF mode = "csv" THEN read_csv(table) ELSE clean_dataframe(read_csv(table))
    /\ mode = "dashboard" => df # << >>
    /\ pos = 0
    /\ enriched_data = << >>
    /\ first_run = NO_RUN
    /\ output_df = NO_OUTPUT
    /\ pc = "loop"
    /\ company_name = << >>
    /\ CallInit

(***************************************************************************)
(* enrich_company, one step per request it makes                           *)
(***************************************************************************)
AnalyzerCall(fn) ==
    [fn |-> fn, company_name |-> company_name, website_content |-> website_content]

\* lines 380-390: CompanyData(name=...), then search_company_website starts;
\* an error in building the variations is caught at line 64 (website = "")
Enrich ==
    /\ pc = "enrich"
    /\ company' = CompanyData(company_name)
    /\ probe_i' = 1
    /\ fetched' = << >>
    /\ last_response' = NO_RESPONSE
    /\ calls' = << >>
    /\ analysis' = EMPTY_ANALYSIS
    /\ last_reply' = NO_REPLY
    /\ slept' = 0
    /\ error' = << >>
    /\ IF variations_raise(company_name)
       THEN pc' = "groq" /\ website_content' = name_only_content(company_name)
       ELSE /\ pc' = IF probe_candidates(company_name) = << >> THEN "search" ELSE "probe"
            /\ website_content' = << >>
    /\ UNCHANGED << batch_vars, company_name >>

\* lines 97-108: one candidate is fetched and judged
Probe ==
    /\ pc = "probe"
    /\ LET candidates == probe_candidates(company_name)
           domain == candidates[probe_i]
       IN  \E response \in ProbeEnv(domain) :
               /\ fetched' = Append(fetched, [by |-> "probe", url |-> domain])
               /\ last_response' = response
               /\ IF probe_accepts(response)
                  THEN /\ company' = [company EXCEPT !.website = domain]
                       /\ pc' = "scrape"
                       /\ probe_i' = probe_i
                  ELSE /\ company' = company
                       /\ pc' = IF probe_i < Len(candidates) THEN "probe" ELSE "search"
                       /\ probe_i' = probe_i + 1
    /\ UNCHANGED << batch_vars, company_name, website_content, calls, analysis,
                    last_reply, slept, error >>

\* lines 55-62 and 112-140: the search fallback
Search ==
    /\ pc = "search"
    /\ \E response \in SearchEnv(search_url(company_name)) :
           LET website == search_via_web(response, company_name)
           IN  /\ fetched' = Append(fetched, [by |-> "search", url |-> search_url(company_name)])
               /\ last_response' = response
               /\ company' = [company EXCEPT !.website = website]
               /\ IF website # << >>
                  THEN pc' = "scrape" /\ website_content' = website_content
                  ELSE pc' = "groq" /\ website_content' = name_only_content(company_name)
    /\ UNCHANGED << batch_vars, company_name, probe_i, calls, analysis, last_reply,
                    slept, error >>

\* lines 406-414: the page is fetched and its text extracted
Scrape ==
    /\ pc = "scrape"
    /\ ~fault_here
    /\ \E response \in ScrapeEnv(company.website) :
           /\ fetched' = Append(fetched, [by |-> "scrape", url |-> company.website])
           /\ last_response' = response
           /\ website_content' =
                  content_or_fallback(scrape_website_content(response), company.website)
    /\ pc' = "groq"
    /\ UNCHANGED << batch_vars, company_name, company, probe_i, calls, analysis,
                    last_reply, slept, error >>

\* lines 395 and 418: the primary provider
Groq ==
    /\ pc = "groq"
    /\ ~fault_here
    /\ \E reply \in GroqEnv :
           /\ analysis' = analyze_with_groq(reply)
           /\ last_reply' = reply
    /\ calls' = Append(calls, AnalyzerCall("analyze_with_groq"))
    /\ pc' = IF needs_fallback(analysis') THEN "gemini" ELSE "assign"
    /\ UNCHANGED << batch_vars, company_name, company, probe_i, fetched, last_response,
                    website_content, slept, error >>

\* lines 397 and 423: the secondary provider
Gemini ==
    /\ pc = "gemini"
    /\ ~fault_here
    /\ \E reply \in GeminiEnv : analysis' = analyze_with_gemini(reply)
    /\ calls' = Append(calls, AnalyzerCall("analyze_with_gemini"))
    /\ pc' = "assign"
    /\ UNCHANGED << batch_vars, company_name, company, probe_i, fetched, last_response,
                    website_content, last_reply, slept, error >>

\* lines 399-402 (return without a website) and 425-427
Assign ==
    /\ pc = "assign"
    /\ ~fault_here
    /\ IF company.website = << >>
       THEN company' = assign_without_website(company, analysis) /\ pc' = "returned"
       ELSE company' = assign_with_website(company, analysis) /\ pc' = "log"
    /\ UNCHANGED << batch_vars, company_name, probe_i, fetched, last_response,
                    website_content, calls, analysis, last_reply, slept, error >>

\* lines 429-432: the analysis is logged
Log ==
    /\ pc = "log"
    /\ ~fault_here
    /\ pc' = "sleep"
    /\ UNCHANGED << batch_vars, company_name, company, probe_i, fetched, last_response,
                    website_content, calls, analysis, last_reply, slept, error >>

\* lines 438-442: the delay, then the return
Sleep ==
    /\ pc = "sleep"
    /\ ~fault_here
    /\ slept' = slept + 1
    /\ pc' = "returned"
    /\ UNCHANGED << batch_vars, company_name, company, probe_i, fetched, last_response,
                    website_content, calls, analysis, last_reply, error >>

\* lines 434-436: an unexpected error in the try block of enrich_company
RaiseInTry ==
    /\ pc \in {"scrape", "groq", "gemini", "assign", "log"}
    /\ may_raise
    /\ company' = enrich_error(company, ERROR_MESSAGE)
    /\ pc' = "sleep"
    /\ UNCHANGED << batch_vars, company_name, probe_i, fetched, last_response,
                    website_content, calls, analysis, last_reply, slept, error >>

\* an unexpected error after the try block leaves enrich_company
RaiseAfterTry ==
    /\ pc = "sleep"
    /\ may_raise
    /\ error' = ERROR_MESSAGE
    /\ pc' = "raised"
    /\ UNCHANGED << batch_vars, company_name, company, probe_i, fetched, last_response,
                    website_content, calls, analysis, last_reply, slept >>

(***************************************************************************)
(* The batch loops: process_csv and run_enrichment_with_df                 *)
(***************************************************************************)
call_vars == << company, probe_i, fetched, last_response, website_content, calls,
                analysis, last_reply, slept, error >>

current_name == row_name(df[pos + 1].cell)

\* the loop takes the next row and calls enrich_company
ReadRow ==
    /\ pc = "loop"
    /\ pos < Len(df)
    /\ mode = "dashboard" =>
           /\ ~dashboard_skips(current_name)
           /\ ~progress_raises(df[pos + 1].label, Len(df))
    /\ company_name' = current_name
    /\ pc' = "enrich"
    /\ UNCHANGED << batch_vars, call_vars >>

\* streamlit_app.py lines 219-221: continue
SkipRow ==
    /\ pc = "loop"
    /\ pos < Len(df)
    /\ mode = "dashboard"
    /\ dashboard_skips(current_name)
    /\ pos' = pos + 1
    /\ UNCHANGED << mode, world, table, df, enriched_data, first_run, output_df, pc, company_name,
                    call_vars >>

\* streamlit_app.py lines 224-225 and 286-290: progress_bar.progress raises
\* and the outer except ends the run; no result is stored
AbortRun ==
    /\ pc = "loop"
    /\ pos < Len(df)
    /\ mode = "dashboard"
    /\ ~dashboard_skips(current_name)
    /\ progress_raises(df[pos + 1].label, Len(df))
    /\ pc' = "aborted"
    /\ UNCHANGED << batch_vars, company_name, call_vars >>

\* the row of the company that enrich_company returned
AppendRow ==
    /\ pc = "returned"
    /\ mode \in {"csv", "dashboard"}
    /\ enriched_data' = Append(enriched_data, output_row(company))
    /\ pos' = pos + 1
    /\ pc' = "loop"
    /\ UNCHANGED << mode, world, table, df, first_run, output_df, company_name, call_vars >>

\* the except clause of the loop body
AppendError ==
    /\ pc = "raised"
    /\ mode \in {"csv", "dashboard"}
    /\ enriched_data' = Append(enriched_data,
                               IF mode = "csv"
                               THEN csv_error_row(company_name, error)
                               ELSE dashboard_error_row(company_name, error))
    /\ pos' = pos + 1
    /\ pc' = "loop"
    /\ UNCHANGED << mode, world, table, df, first_run, output_df, company_name, call_vars >>

\* the loop is over: the rows become the output
Finish ==
    /\ pc = "loop"
    /\ pos = Len(df)
    /\ output_df' = DataFrame(enriched_data)
    /\ pc' = "done"
    /\ UNCHANGED << mode, world, table, df, pos, enriched_data, first_run, company_name,
                    call_vars >>

Next ==
    \/ Enrich \/ Probe \/ Search \/ Scrape \/ Groq \/ Gemini \/ Assign \/ Log \/ Sleep
    \/ RaiseInTry \/ RaiseAfterTry

Spec == Init /\ [][Next]_vars

(***************************************************************************)
(* One call of search_company_website, on names of every shape             *)
(***************************************************************************)
\* what a name is made of: a word, a further word of one character after a
\* space, and punctuation that the second variation removes (".") and keeps
\* ("'")
NamePieces == {NAME_ACME, << " ", "X" >>, << "." >>, << ".", "'" >>}

\* the names the callers pass: trimmed (lines 455 and 217 strip the cell)
DiscoverNames ==
    {name \in {concat_all(pieces) : pieces \in SeqsUpTo(NamePieces, MaxPieces)} :
        str_strip(name) = name}

InitDiscover ==
    /\ mode = "discover"
    /\ world = LAZY_WORLD
    /\ table = << >>
    /\ df = << >>
    /\ pos = 0
    /\ enriched_data = << >>
    /\ first_run = NO_RUN
    /\ output_df = NO_OUTPUT
    /\ pc = "enrich"
    /\ company_name \in DiscoverNames
    /\ CallInit

\* the steps of enrich_company up to the return of search_company_website
NextDiscover == Enrich \/ Probe \/ Search

SpecDiscover == InitDiscover /\ [][NextDiscover]_vars

NextBatch ==
    \/ ReadRow \/ SkipRow \/ AbortRun \/ AppendRow \/ AppendError \/ Finish
    \/ Enrich \/ Probe \/ Search \/ Scrape \/ Groq \/ Gemini \/ Assign \/ Log \/ Sleep
    \/ RaiseInTry \/ RaiseAfterTry

SpecBatch == InitBatch /\ [][NextBatch]_vars

(***************************************************************************)
(* Two batch runs over the same input in the same environment              *)
(***************************************************************************)
\* a second run whose list of rows is not started afresh
RunAgain_keeping_rows ==
    /\ pc = "done"
    /\ ~first_run.done
    /\ first_run' = [done |-> TRUE, rows |-> enriched_data]
    /\ df' = IF mode = "csv" THEN read_csv(table) ELSE clean_dataframe(read_csv(table))
    /\ pos' = 0
    /\ enriched_data' = enriched_data
    /\ output_df' = NO_OUTPUT
    /\ pc' = "loop"
    /\ UNCHANGED << mode, world, table, company_name, call_vars >>

\* the procedure is run a second time on the same file: the table is read
\* again and the list of rows starts empty (lines 446-452; streamlit_app.py
\* lines 206-214); nothing else is reset
RunAgain ==
    /\ pc = "done"
    /\ ~first_run.done
    /\ first_run' = [done |-> TRUE, rows |-> enriched_data]
    /\ df' = IF mode = "csv" THEN read_csv(table) ELSE clean_dataframe(read_csv(table))
    /\ pos' = 0
    /\ enriched_data' = << >>
    /\ output_df' = NO_OUTPUT
    /\ pc' = "loop"
    /\ UNCHANGED << mode, world, table, company_name, call_vars >>

NextTwice ==
    \/ ReadRow \/ SkipRow \/ AbortRun \/ AppendRow \/ AppendError \/ Finish
    \/ Enrich \/ Probe \/ Search \/ Scrape \/ Groq \/ Gemini \/ Assign \/ Log \/ Sleep
    \/ RaiseInTry \/ RaiseAfterTry
    \/ RunAgain

SpecTwice == InitBatch /\ [][NextTwice]_vars

(***************************************************************************)
(* One application of an analyzer to a provider reply                      *)
(***************************************************************************)
InitAnalyze ==
    /\ mode = "analyze"
    /\ world = LAZY_WORLD
    /\ table = << >>
    /\ df = << >>
    /\ pos = 0
    /\ enriched_data = << >>
    /\ first_run = NO_RUN
    /\ output_df = NO_OUTPUT
    /\ pc = "reply"
    /\ company_name = NAME_ACME
    /\ company = CompanyData(NAME_ACME)
    /\ probe_i = 1
    /\ fetched = << >>
    /\ last_response = NO_RESPONSE
    /\ website_content = name_only_content(NAME_ACME)
    /\ calls = << >>
    /\ analysis = EMPTY_ANALYSIS
    /\ last_reply \in AnalyzerReplies
    /\ slept = 0
    /\ error = << >>

\* analyze_with_groq(company_name, website_content) meets last_reply
AnalyzeGroq ==
    /\ pc = "reply"
    /\ analysis' = analyze_with_groq(last_reply)
    /\ calls' = Append(calls, AnalyzerCall("analyze_with_groq"))
    /\ pc' = "analyzed"
    /\ UNCHANGED << batch_vars, company_name, company, probe_i, fetched, last_response,
                    website_content, last_reply, slept, error >>

\* analyze_with_gemini(company_name, website_content) meets last_reply
AnalyzeGemini ==
    /\ pc = "reply"
    /\ analysis' = analyze_with_gemini(last_reply)
    /\ calls' = Append(calls, AnalyzerCall("analyze_with_gemini"))
    /\ pc' = "analyzed"
    /\ UNCHANGED << batch_vars, company_name, company, probe_i, fetched, last_response,
                    website_content, last_reply, slept, error >>

NextAnalyze == AnalyzeGroq \/ AnalyzeGemini

SpecAnalyze == InitAnalyze /\ [][NextAnalyze]_vars

(***************************************************************************)
(* One application of _parse_text_response to a text                       *)
(***************************************************************************)
LINE_INDUSTRY == << "I","n","d","u","s","t","r","y",":"," ","T","e","c","h" >>

LINE_ABOUT == << "A","b","o","u","t"," ","u","s" >>

LINE_ELEVEN == << "e","l","e","v","e","n"," ","c","h","a","r" >>

LINE_TEN == << "t","e","n"," ","c","h","a","r","s","!" >>

LINE_BLANK == << " ", " " >>

LINE_PITCH == << " "," ","P","i","t","c","h",":"," ","a","u","t","o","m","a","t","e"," ","Q","A",":"," ","f","a","s","t"," " >>

LINE_MIXED == << "B","u","s","i","n","e","s","s"," ","s","u","m","m","a","r","y",":"," ","o","u","r"," ","s","e","c","t","o","r" >>

\* the lines a text is made of: keyword lines with one colon, two colons and
\* none, a line with keywords of several fields, lines of 10 and 11
\* characters, a blank line, and a line as long as a field may get
LINE_LONG == words_text(MAX_FIELD_LENGTH)

TextLines ==
    {LINE_INDUSTRY, LINE_ABOUT, LINE_ELEVEN, LINE_TEN, LINE_BLANK, LINE_PITCH,
     LINE_MIXED, LINE_LONG}

\* '\n'.join(lines)
RECURSIVE join_lines(_)
join_lines(lines) ==
    IF lines = << >> THEN << >>
    ELSE IF Len(lines) = 1 THEN lines[1]
    ELSE lines[1] \o << "\n" >> \o join_lines(Tail(lines))

\* the texts of up to MaxLines lines, at most one of them the long line
ParserTexts ==
    {join_lines(lines) : lines \in
        {ls \in SeqsUpTo(TextLines, MaxLines) :
            Cardinality({i \in 1..Len(ls) : ls[i] = LINE_LONG}) <= 1}}

InitParse ==
    /\ mode = "parse"
    /\ world = LAZY_WORLD
    /\ table = << >>
    /\ df = << >>
    /\ pos = 0
    /\ enriched_data = << >>
    /\ first_run = NO_RUN
    /\ output_df = NO_OUTPUT
    /\ pc = "text"
    /\ company_name = NAME_ACME
    /\ company = CompanyData(NAME_ACME)
    /\ probe_i = 1
    /\ fetched = << >>
    /\ last_response = NO_RESPONSE
    /\ website_content = << >>
    /\ calls = << >>
    /\ analysis = EMPTY_ANALYSIS
    /\ last_reply \in {ProviderReply("text", t) : t \in ParserTexts}
    /\ slept = 0
    /\ error = << >>

\* _parse_text_response(content) on the text of last_reply
Parse ==
    /\ pc = "text"
    /\ analysis' = parse_text_response(last_reply.text)
    /\ pc' = "parsed"
    /\ UNCHANGED << batch_vars, company_name, company, probe_i, fetched, last_response,
                    website_content, calls, last_reply, slept, error >>

NextParse == Parse

SpecParse == InitParse /\ [][NextParse]_vars

(***************************************************************************)
(* One application of scrape_website_content to a page                     *)
(***************************************************************************)
\* region texts: under, at and over the threshold, with whitespace runs, and
\* long enough to reach the content limit alone or together
RegionTexts ==
    {NAME_ACME, filler(MIN_CONTENT_LENGTH), words_text(MIN_CONTENT_LENGTH + 1), REGION_ABOUT,
     words_text(MAX_CONTENT_LENGTH - MIN_CONTENT_LENGTH - 2), words_text(MAX_CONTENT_LENGTH)}

ScrapePages ==
    {R_EXC} \cup {Response(FALSE, status, << >>, regions, << >>) :
                     status \in {200, 404}, regions \in SeqsUpTo(RegionTexts, MaxRegions)}

InitScrape ==
    /\ mode = "scrape"
    /\ world = LAZY_WORLD
    /\ table = << >>
    /\ df = << >>
    /\ pos = 0
    /\ enriched_data = << >>
    /\ first_run = NO_RUN
    /\ output_df = NO_OUTPUT
    /\ pc = "page"
    /\ company_name = NAME_ACME
    /\ company = CompanyData(NAME_ACME)
    /\ probe_i = 1
    /\ fetched = << >>
    /\ last_response \in ScrapePages
    /\ website_content = << >>
    /\ calls = << >>
    /\ analysis = EMPTY_ANALYSIS
    /\ last_reply = NO_REPLY
    /\ slept = 0
    /\ error = << >>

\* scrape_website_content(url) gets last_response for its request
Extract ==
    /\ pc = "page"
    /\ website_content' = scrape_website_content(last_response)
    /\ pc' = "extracted"
    /\ UNCHANGED << batch_vars, company_name, company, probe_i, fetched, last_response,
                    calls, analysis, last_reply, slept, error >>

NextScrape == Extract

SpecScrape == InitScrape /\ [][NextScrape]_vars

(***************************************************************************)
(* Properties                                                              *)
(***************************************************************************)
\* the names a table holds: the trimmed text of every cell that is not
\* empty after trimming, in input order
expected_names(cells) ==
    LET named == SelectSeq(cells, LAMBDA c : ~c.nan /\ str_strip(c.text) # << >>)
    IN  [i \in 1..Len(named) |-> str_strip(named[i].text)]

emitted_names == [i \in 1..Len(enriched_data) |-> enriched_data[i].company_name]

\* C1: a finished batch run has emitted exactly one record per input row
\* whose name is non-empty after trimming, in input order, and none for the
\* rows whose name is empty or whitespace-only.
C1_OneRecordPerNamedRow ==
    pc = "done" => emitted_names = expected_names(table)

\* the record carries an error message in its summary
is_error_row(row) ==
    \/ str_at(row.summary_from_llm, 0, ENRICH_ERROR_PREFIX)
    \/ str_at(row.summary_from_llm, 0, CSV_ERROR_PREFIX)
    \/ str_at(row.summary_from_llm, 0, DASH_ERROR_PREFIX)

\* C2: every record produced for a company whose enrichment met an
\* unexpected error (its summary carries the error message) has empty
\* website, industry and automation_pitch.
C2_ErrorRecordIsBlank ==
    \A i \in 1..Len(enriched_data) :
        is_error_row(enriched_data[i]) =>
            /\ enriched_data[i].website = << >>
            /\ enriched_data[i].industry = << >>
            /\ enriched_data[i].automation_pitch_from_llm = << >>

\* the summary the primary provider returned in the current call
primary_summary == analyze_with_groq(last_reply).summary

\* C3: in one enrich_company call the analyzers are called at most twice,
\* the primary first and the secondary only second; the secondary is called
\* if and only if the primary returned an empty summary, and with the same
\* company name and the same content as the primary.
C3_SecondaryIffPrimaryEmpty ==
    /\ Len(calls) <= 2
    /\ \A i \in 1..Len(calls) : (calls[i].fn = "analyze_with_gemini") = (i = 2)
    /\ \A i \in 1..Len(calls) : (calls[i].fn = "analyze_with_groq") = (i = 1)
    /\ Len(calls) = 2 =>
           /\ primary_summary = << >>
           /\ calls[2].company_name = calls[1].company_name
           /\ calls[2].website_content = calls[1].website_content
    /\ pc = "gemini" => Len(calls) = 1 /\ primary_summary = << >>
    /\ pc = "assign" => Len(calls) >= 1 /\ ((Len(calls) = 2) = (primary_summary = << >>))

\* the secondary provider was called in the branch with a website
C3_Witness ==
    /\ pc = "assign"
    /\ company.website # << >>
    /\ Len(calls) = 2
    /\ calls[2].fn = "analyze_with_gemini"
    /\ primary_summary = << >>

\* both providers were called and both returned all-empty results
both_analyses_empty ==
    /\ Len(calls) = 2
    /\ analyze_with_groq(last_reply) = EMPTY_ANALYSIS
    /\ analysis = EMPTY_ANALYSIS

\* the except clause of enrich_company wrote the summary
error_caught == str_at(company.summary, 0, ENRICH_ERROR_PREFIX)

\* C4: a call that found no website and got all-empty results from both
\* providers returns industry "Unknown", the contact-us pitch, the "not
\* available" summary and an empty website.
C4_DefaultsWithoutWebsite ==
    (pc = "returned" /\ company.website = << >> /\ both_analyses_empty /\ ~error_caught) =>
        /\ company.industry = UNKNOWN_INDUSTRY
        /\ company.automation_pitch = DEFAULT_PITCH
        /\ company.summary = NOT_AVAILABLE_PREFIX \o company.name \o NOT_AVAILABLE_SUFFIX

\* C5: a call that found a website and got all-empty results from both
\* providers returns the website it scraped and empty summary, industry and
\* automation_pitch; a discovered website is never changed afterwards.
C5_EmptyFieldsWithWebsite ==
    /\ [](  (pc = "returned" /\ company.website # << >> /\ both_analyses_empty
             /\ ~error_caught) =>
                /\ fetched[Len(fetched)] = [by |-> "scrape", url |-> company.website]
                /\ company.summary = << >>
                /\ company.industry = << >>
                /\ company.automation_pitch = << >>)
    /\ [][company.website # << >> => company'.website = company.website]_vars

\* a call with a website returned after two all-empty analyses
C5_Witness ==
    /\ pc = "returned"
    /\ company.website # << >>
    /\ both_analyses_empty
    /\ ~error_caught
    /\ slept = 1

\* the acceptance test as the claim states it
acceptable(response) ==
    /\ ~response.exc
    /\ response.status = 200
    /\ Len(response.body) > MIN_PROBE_BYTES
    /\ \A k \in 1..Len(parked_indicators) :
           ~str_in(parked_indicators[k], str_lower(response.body))

\* the probe requests of the current call, in the order they were made
probes == SelectSeq(fetched, LAMBDA f : f.by = "probe")

\* C6: the probes go through the candidates in probe order; each probe
\* either meets the acceptance test (status 200, more than 1000 bytes, no
\* parked-domain phrase), and then its URL is the website and probing ends,
\* or it is rejected and leaves no website; after an accepted probe no
\* further candidate is fetched and no search is issued, and a search is
\* issued only when every candidate was rejected.
C6_FirstAcceptedCandidate ==
    /\ [](LET candidates == probe_candidates(company_name)
          IN  /\ Len(probes) <= Len(candidates)
              /\ \A i \in 1..Len(probes) : probes[i].url = candidates[i]
              /\ \A i \in 1..Len(fetched) : \A j \in 1..Len(fetched) :
                     (i < j /\ fetched[j].by = "probe") => fetched[i].by = "probe"
              /\ (\E i \in 1..Len(fetched) : fetched[i].by = "search") =>
                     Len(probes) = Len(candidates)
              /\ (company.website # << >>
                    /\ ~\E i \in 1..Len(fetched) : fetched[i].by = "search") =>
                     /\ probes # << >>
                     /\ company.website = probes[Len(probes)].url
                     /\ pc \notin {"probe", "search"})
    /\ [][pc = "probe" =>
            /\ fetched' = Append(fetched, [by |-> "probe",
                                            url |-> probe_candidates(company_name)[probe_i]])
            /\ acceptable(last_response') =>
                   /\ company'.website = probe_candidates(company_name)[probe_i]
                   /\ pc' = "scrape"
            /\ ~acceptable(last_response') =>
                   /\ company'.website = << >>
                   /\ pc' \in {"probe", "search"}]_vars

\* a candidate was accepted after a parked page was rejected before it
C6_Witness ==
    /\ pc = "scrape"
    /\ Len(fetched) >= 2
    /\ \A i \in 1..Len(fetched) : fetched[i].by = "probe"
    /\ company.website = fetched[Len(fetched)].url
    /\ acceptable(last_response)

\* the reply text has no brace-delimited block, or its block is not JSON
no_json_in(text) ==
    \/ ~json_match(text).found
    \/ ~json_loads(json_match(text).group).ok

\* the heuristic parser's result on a reply text, with or without its
\* code-fence markers
heuristic_results(text) ==
    {parse_text_response(str_strip(text)),
     parse_text_response(str_strip(str_replace(str_replace(str_strip(text),
                             FENCE_JSON, << >>), FENCE, << >>)))}

\* C7: an analyzer given a reply text without a brace-delimited block, or
\* with a block that is not JSON, returns the heuristic parser's result on
\* that text; on "Summary: widgets", "Industry: Tech" that is summary
\* "widgets", industry "Tech" and an empty automation_pitch.
C7_HeuristicFallback ==
    (pc = "analyzed" /\ last_reply.kind = "text") =>
        /\ no_json_in(str_strip(last_reply.text)) =>
               analysis \in heuristic_results(last_reply.text)
        /\ last_reply.text = PROSE_FIELDS =>
               analysis = AnalysisResult(<< "w","i","d","g","e","t","s" >>,
                                         << "T","e","c","h" >>, << >>)

\* the values of a JSON object: trimmed, a missing key giving ""
object_fields(body) == fields_of(json_loads(body).obj)

\* C8: an analyzer given a valid JSON object with string values, wrapped in
\* code-fence markers and/or prose without braces, returns exactly the
\* object's trimmed summary, industry and automation_pitch.
C8_WrappedJsonExact ==
    (pc = "analyzed" /\ last_reply.kind = "text") =>
        \A pre \in Prefixes : \A body \in JsonBodies : \A post \in Suffixes :
            last_reply.text = pre \o body \o post => analysis = object_fields(body)

\* C9: every field of an analyzer's result is at most 500 characters long.
C9_FieldsAtMost500 ==
    pc = "analyzed" =>
        /\ Len(analysis.summary) <= MAX_FIELD_LENGTH
        /\ Len(analysis.industry) <= MAX_FIELD_LENGTH
        /\ Len(analysis.automation_pitch) <= MAX_FIELD_LENGTH

\* the text the extractor collects from a page before it cuts it
collected_text(response) ==
    str_strip(collapse_ws(str_join(
        SelectSeq(response.regions, LAMBDA text : Len(text) > MIN_CONTENT_LENGTH))))

\* the page's request failed
fetch_failed(response) == response.exc \/ response.status >= 400

\* C10: the extractor's text is at most 4000 characters long; collected
\* text longer than that is cut to its first 4000 characters; a failed
\* fetch, or a page with no region over 50 characters, gives "".
C10_ContentAtMost4000 ==
    pc = "extracted" =>
        /\ Len(website_content) <= MAX_CONTENT_LENGTH
        /\ (fetch_failed(last_response)
              \/ \A k \in 1..Len(last_response.regions) :
                     Len(last_response.regions[k]) <= MIN_CONTENT_LENGTH) =>
               website_content = << >>
        /\ (~fetch_failed(last_response)
              /\ Len(collected_text(last_response)) > MAX_CONTENT_LENGTH) =>
               website_content = SubSeq(collected_text(last_response), 1, MAX_CONTENT_LENGTH)

\* a page whose collected text was cut
C10_Witness ==
    /\ pc = "extracted"
    /\ ~fetch_failed(last_response)
    /\ Len(collected_text(last_response)) > MAX_CONTENT_LENGTH
    /\ Len(website_content) = MAX_CONTENT_LENGTH

\* C11: a call that has returned has performed the delay exactly once,
\* whether or not a website was found and whether or not an error was caught.
C11_DelayBeforeReturn ==
    pc = "returned" => slept = 1

OUTPUT_CSV_COLUMNS == << "company_name", "website", "industry", "summary_from_llm",
                         "automation_pitch_from_llm" >>

\* C13: the output process_csv writes for a table that has the company_name
\* column, a table with zero data rows included, has exactly the columns
\* company_name, website, industry, summary_from_llm,
\* automation_pitch_from_llm, in that order.
C13_FiveColumns ==
    (mode = "csv" /\ pc = "done") => output_df.columns = OUTPUT_CSV_COLUMNS

\* C14: every record batch processing has produced, and every CompanyData
\* enrich_company has created for it, has a name that is not empty after
\* trimming.
C14_NameNeverEmpty ==
    /\ \A i \in 1..Len(enriched_data) : str_strip(enriched_data[i].company_name) # << >>
    /\ pc \in {"probe", "search", "scrape", "groq", "gemini", "assign", "log", "sleep",
               "returned", "raised"} => str_strip(company.name) # << >>

\* the provider request failed: a transport failure or timeout, a
\* non-success HTTP status, or a response without the content field
request_failed(reply) == reply.kind \in {"transport", "http_error", "no_choices", "no_content"}

\* C15: an analyzer whose request failed (transport failure, timeout,
\* non-success status, response without the content field) returns, and
\* what it returns has summary, industry and automation_pitch all empty.
C15_FailureGivesEmpty ==
    /\ (pc = "analyzed" /\ request_failed(last_reply)) => analysis = EMPTY_ANALYSIS
    /\ (pc = "reply" /\ request_failed(last_reply)) =>
           /\ ENABLED AnalyzeGroq
           /\ ENABLED AnalyzeGemini

\* the primary analyzer returned from a response without the content field
C15_Witness ==
    /\ pc = "analyzed"
    /\ last_reply.kind = "no_content"
    /\ calls[1].fn = "analyze_with_groq"
    /\ analysis = EMPTY_ANALYSIS

\* pattern probing accepted a candidate: there is a website and no search
\* request was made
probe_accepted ==
    /\ company.website # << >>
    /\ \A i \in 1..Len(fetched) : fetched[i].by # "search"

\* the reply text is the JSON object body, bare or wrapped
wraps(text, body) ==
    \E pre \in Prefixes : \E post \in Suffixes : text = pre \o body \o post

\* the call went the whole way: a probe was accepted, the page gave text, the
\* primary provider replied with text, and no error was caught
happy_path ==
    /\ pc = "returned"
    /\ ~error_caught
    /\ probe_accepted
    /\ scrape_website_content(last_response) # << >>
    /\ last_reply.kind = "text"

\* the record is (name, accepted URL, the object's trimmed values), made
\* without the search fallback and with the primary provider alone
record_of(body) ==
    /\ company = [name |-> company_name,
                  website |-> probes[Len(probes)].url,
                  industry |-> object_fields(body).industry,
                  summary |-> object_fields(body).summary,
                  automation_pitch |-> object_fields(body).automation_pitch]
    /\ Len(calls) = 1
    /\ calls[1].fn = "analyze_with_groq"
    /\ calls[1].website_content = scrape_website_content(last_response)

result_urls(response) ==
    LET wrapped == SelectSeq(response.links, LAMBDA href : str_in(UDDG, href))
    IN  [i \in 1..Len(wrapped) |-> actual_url(wrapped[i])]

\* the first result the filter accepts, "" when the page could not be
\* fetched or no result is accepted
first_accepted_result(response, name) ==
    LET urls == result_urls(response)
        hits == {i \in 1..Len(urls) : is_likely_company_website(urls[i], name)}
    IN  IF response.exc \/ response.status # 200 \/ hits = {} THEN << >>
        ELSE urls[CHOOSE i \in hits : \A j \in hits : i <= j]

\* the requests of the current call made by the search fallback / the extractor
searches == SelectSeq(fetched, LAMBDA f : f.by = "search")

scrapes == SelectSeq(fetched, LAMBDA f : f.by = "scrape")

\* C17: the search request is issued exactly when probing accepted no
\* candidate (every candidate was rejected, or there was none), and at most
\* once; the website is the accepted candidate, else the first search result
\* the filter accepts, else ""; discovery never ends in an error; and the
\* extractor is called only on a non-empty website.
C17_DiscoveryStrategies ==
    /\ [](/\ Len(searches) <= 1
          /\ pc \in {"probe", "search"} => company.website = << >> /\ error = << >>
          /\ pc = "scrape" => company.website # << >>
          /\ scrapes # << >> =>
                 /\ Len(scrapes) = 1
                 /\ company.website # << >>
                 /\ scrapes[1].url = company.website
          /\ (pc \notin {"enrich", "probe", "search"} /\ company.website = << >>) =>
                 /\ Len(searches) = 1
                 /\ scrapes = << >>)
    /\ [][/\ pc = "enrich" =>
                pc' = IF probe_candidates(company_name) = << >> THEN "search" ELSE "probe"
          /\ pc = "probe" =>
                /\ searches' = << >>
                /\ (pc' = "scrape") = acceptable(last_response')
                /\ (pc' = "search") = (/\ ~acceptable(last_response')
                                       /\ Len(probes') = Len(probe_candidates(company_name)))
                /\ (pc' = "probe") = (/\ ~acceptable(last_response')
                                      /\ Len(probes') < Len(probe_candidates(company_name)))
                /\ pc' = "scrape" => company'.website = probes'[Len(probes')].url
          /\ pc = "search" =>
                /\ fetched' = Append(fetched, [by |-> "search", url |-> search_url(company_name)])
                /\ company'.website = first_accepted_result(last_response', company_name)
                /\ pc' = IF company'.website # << >> THEN "scrape" ELSE "groq"]_vars

\* every candidate was rejected and the search gave the website, whose page
\* the extractor then fetched
C17_Witness ==
    /\ pc = "groq"
    /\ Len(probes) = Len(probe_candidates(company_name))
    /\ Len(searches) = 1
    /\ Len(scrapes) = 1
    /\ company.website # << >>
    /\ company.website = result_urls(R_SEARCH_HITS)[3]

\* C18: the two analyzers derive the same result from the same response
\* text: what the analyzer that ran returned is what the primary and the
\* secondary analyzer each return for that text.
C18_SameParsingBothProviders ==
    (pc = "analyzed" /\ last_reply.kind = "text") =>
        /\ analysis = analyze_with_groq(last_reply)
        /\ analysis = analyze_with_gemini(last_reply)

\* the stripped, non-empty lines of a text
text_lines(text) ==
    LET raw == str_split(text, << "\n" >>)
        stripped == [i \in 1..Len(raw) |-> str_strip(raw[i])]
    IN  SelectSeq(stripped, LAMBDA line : line # << >>)

\* the line holds one of the words, in any case
mentions(words, line) ==
    \E k \in 1..Len(words) : \E i \in 0..(Len(line) - Len(words[k])) :
        \A c \in 1..Len(words[k]) : LowerChar(line[i + c]) = words[k][c]

\* the field a keyword line names ("" for a line without keyword); a line
\* with keywords of several fields names the first of summary, industry,
\* automation_pitch
field_named(line) ==
    IF mentions(SUMMARY_WORDS, line) THEN "summary"
    ELSE IF mentions(INDUSTRY_WORDS, line) THEN "industry"
    ELSE IF mentions(PITCH_WORDS, line) THEN "automation_pitch"
    ELSE ""

\* the trimmed text after the first colon of a line that has one
after_colon(line) ==
    LET colons == {i \in 1..Len(line) : line[i] = ":"}
        first == CHOOSE i \in colons : \A j \in colons : i <= j
    IN  str_strip(SubSeq(line, first + 1, Len(line)))

\* what the keyword rules give one field of a text with the given lines,
\* named[i] being the field line i names: the text after the first colon of
\* the last keyword line of the field that has a colon, then, space-joined,
\* every later line without keyword, longer than 10 characters, whose
\* nearest keyword line before it names the field; cut to 500 characters
field_by_rules(lines, named, field) ==
    LET setters == {i \in 1..Len(lines) :
                       named[i] = field /\ \E c \in 1..Len(lines[i]) : lines[i][c] = ":"}
        last_set == IF setters = {} THEN 0 ELSE CHOOSE i \in setters : \A j \in setters : j <= i
        active_at(i) ==
            \E k \in 1..(i - 1) :
                /\ named[k] = field
                /\ \A j \in (k + 1)..(i - 1) : named[j] = ""
        continued == SelectSeq([i \in 1..Len(lines) |-> i],
                        LAMBDA i : /\ i > last_set
                                   /\ named[i] = ""
                                   /\ Len(lines[i]) > MIN_LINE_LENGTH
                                   /\ active_at(i))
        pieces == (IF last_set = 0 \/ after_colon(lines[last_set]) = << >> THEN << >>
                   ELSE << after_colon(lines[last_set]) >>)
                  \o [k \in 1..Len(continued) |-> lines[continued[k]]]
        joined == str_join(pieces)
    IN  SubSeq(joined, 1, IF Len(joined) < MAX_FIELD_LENGTH THEN Len(joined)
                          ELSE MAX_FIELD_LENGTH)

\* C19: for every text the heuristic parser returns three fields, each what
\* the keyword rules give: a keyword line makes its field active and, with a
\* colon, sets it to the text after the first colon; a later line without
\* keyword and longer than 10 characters is appended, space-joined, to the
\* active field; lines before any keyword line and lines of 10 characters or
\* fewer are dropped; a text without keyword line gives all-empty fields.
C19_HeuristicParserRules ==
    pc = "parsed" =>
        LET lines == text_lines(last_reply.text)
            named == [i \in 1..Len(lines) |-> field_named(lines[i])]
        IN  /\ DOMAIN analysis = {"summary", "industry", "automation_pitch"}
            /\ \A field \in DOMAIN analysis :
                   analysis[field] = field_by_rules(lines, named, field)
            /\ (\A i \in 1..Len(lines) : named[i] = "") => analysis = EMPTY_ANALYSIS

\* a text whose pitch line has two colons and is followed by a line that is
\* appended and one that is dropped
C19_Witness ==
    /\ pc = "parsed"
    /\ last_reply.text = join_lines(<< LINE_PITCH, LINE_ELEVEN, LINE_TEN >>)
    /\ analysis = AnalysisResult(<< >>, << >>,
                                 after_colon(str_strip(LINE_PITCH)) \o << " " >> \o LINE_ELEVEN)

\* the tokens of a name: its maximal runs of word characters, lower-cased
name_tokens(name) ==
    {str_lower(SubSeq(name, b, e)) : <<b, e>> \in
        {be \in (1..Len(name)) \X (1..Len(name)) :
            /\ be[1] <= be[2]
            /\ \A i \in be[1]..be[2] : IsWordChar(name[i])
            /\ be[1] = 1 \/ ~IsWordChar(name[be[1] - 1])
            /\ be[2] = Len(name) \/ ~IsWordChar(name[be[2] + 1])}}

\* the filter as the rules state it: the lower-cased domain of the URL
\* contains no skip-list entry, and its alphanumeric-only form contains a
\* token of the name that is longer than 3 characters
accepted_by_rules(url, name) ==
    LET domain == str_lower(url_netloc(url))
        domain_clean == SelectSeq(domain, IsAlnum)
    IN  /\ \A k \in 1..Len(SKIP_DOMAINS) : ~str_in(SKIP_DOMAINS[k], domain)
        /\ \E token \in name_tokens(name) : Len(token) > 3 /\ str_in(token, domain_clean)

\* C20: in the search fallback the result links of a fetched results page
\* are examined in page order and the first accepted one is returned, ""
\* when none is accepted; a link is accepted exactly when its domain holds
\* no skip-list entry and a token of the name longer than 3 characters is a
\* substring of the domain's alphanumeric-only form; a name whose tokens are
\* all 3 characters or shorter never gets a website from the search.
C20_SearchFilter ==
    /\ []((/\ Len(searches) = 1
           /\ \A token \in name_tokens(company_name) : Len(token) <= 3)
              => company.website = << >>)
    /\ [][(/\ pc = "search"
           /\ ~last_response'.exc
           /\ last_response'.status = 200) =>
              LET urls == result_urls(last_response')
                  accepted == {i \in 1..Len(urls) : accepted_by_rules(urls[i], company_name)}
              IN  /\ \A i \in 1..Len(urls) :
                         is_likely_company_website(urls[i], company_name)
                             = accepted_by_rules(urls[i], company_name)
                  /\ accepted = {} => company'.website = << >>
                  /\ accepted # {} =>
                         /\ company'.website \in {urls[i] : i \in accepted}
                         /\ \A i \in accepted :
                                \A j \in 1..(i - 1) : company'.website = urls[i] => j \notin accepted]_vars

\* the search has just returned the third result of a page whose first two
\* results are rejected, one of them by the skip-list, and whose fourth
\* result would have been accepted too
C20_Witness ==
    /\ pc = "scrape"
    /\ Len(searches) = 1
    /\ last_response = R_SEARCH_HITS
    /\ company.website = actual_url(HREF_MATCH)
    /\ ~accepted_by_rules(actual_url(HREF_SKIPPED), company_name)
    /\ ~accepted_by_rules(actual_url(HREF_OTHER), company_name)
    /\ accepted_by_rules(actual_url(HREF_MATCH_LATER), company_name)

\* the probe requests made so far follow the pattern order: within each run
\* of ten the same variant, www. before bare, over .com .io .co .net .org
probes_follow_patterns ==
    \A i \in 1..Len(probes) :
        LET k == ((i - 1) % 10) + 1
            first == probes[i - k + 1].url
            variant == SubSeq(first, Len(WWW_PREFIX) + 1, Len(first) - 4)
            tld == << << ".","c","o","m" >>, << ".","i","o" >>, << ".","c","o" >>,
                      << ".","n","e","t" >>, << ".","o","r","g" >> >>[(k + 1) \div 2]
        IN  /\ Len(variant) >= 2
            /\ probes[i].url = (IF k % 2 = 1 THEN WWW_PREFIX ELSE BARE_PREFIX) \o variant \o tld

\* C21: the probes of a name follow the pattern order, variant by variant,
\* no variant shorter than 2 characters is probed, and a single-word name
\* yields at most two variants, hence at most twenty probes.
C21_NameVariants ==
    /\ probes_follow_patterns
    /\ (\A c \in 1..Len(company_name) : ~IsSpace(company_name[c])) => Len(probes) <= 2 * 10

\* the requests a call of search_company_website may still make, plus one
\* for its start
steps_left ==
    IF pc = "enrich" THEN 3 * 10 + 2
    ELSE IF pc = "probe" THEN 3 * 10 + 1 - Len(probes)
    ELSE IF pc = "search" THEN 1
    ELSE 0

\* C22: a call of search_company_website terminates whatever the fetches
\* give: each of its steps lowers the number of steps left, which starts at
\* 32 and never falls below 0, and a call that has not returned has a next
\* candidate or the search to go to (every request is made with a timeout);
\* it makes at most 30 probe requests and then at most one search request,
\* and it fetches no URL twice.
C22_DiscoveryTerminates ==
    /\ [](/\ steps_left >= 0
          /\ pc = "probe" => probe_i \in 1..Len(probe_candidates(company_name))
          /\ Len(probes) <= 3 * 10
          /\ Len(searches) <= 1
          /\ \A i \in 1..Len(fetched) :
                 /\ fetched[i].by = "search" => i = Len(fetched)
                 /\ \A j \in 1..Len(fetched) : fetched[i].url = fetched[j].url => i = j)
    /\ [][steps_left' < steps_left]_vars

\* thirty candidates were probed and rejected, then the search was made
C22_Witness ==
    /\ pc = "groq"
    /\ Len(probes) = 3 * 10
    /\ Len(searches) = 1
    /\ Len(fetched) = 31

\* C23: in the dashboard loop the progress fraction (row label + 1) / (number
\* of rows) of every row that is processed lies in [0, 1], for every uploaded
\* table as cleaned, so the run is never aborted part-way and a finished run
\* has stored a result for each row it did not skip.
C23_ProgressInRange ==
    mode = "dashboard" =>
        /\ pc # "aborted"
        /\ (pc = "loop" /\ pos < Len(df) /\ ~dashboard_skips(current_name)) =>
               /\ 0 <= df[pos + 1].label + 1
               /\ df[pos + 1].label + 1 <= Len(df)
        /\ pc = "done" =>
               Len(enriched_data)
                   = Len(SelectSeq(df, LAMBDA r : ~dashboard_skips(row_name(r.cell))))

====
